---- MODULE Spec2Model ----
(***************************************************************************)
(* A model of the BioFabric-rs core: the Network container (links,         *)
(* shadows, adjacency index, subnetwork extraction), the SIF loader, the   *)
(* alignment merge and the alignment cycle detection.                      *)
(*                                                                         *)
(* Conventions.  A NodeId is a string; the order of NodeIds (Rust's        *)
(* lexicographic string order) is given by NodeRank.  Option<T> is a       *)
(* sequence of length 0 (None) or 1 (Some).  Vec indices are 1-based here  *)
(* and 0-based in the source.  The insertion order of the node map and of  *)
(* the lone node set is not read by any operation modelled here, so both   *)
(* are sets.  last_op records whether the operation that produced the      *)
(* state was generate_shadows, and whether the one before it was too.      *)
(* g1, g2, alignment and perfect are the inputs of the alignment merge and *)
(* of the cycle detection, merged and cycles their results (None before    *)
(* the call).  A merged node name "g1::g2" is the pair <<g1, g2>>, with "" *)
(* for the missing half of "g1::" and "::g2".  cancelled is the flag of the *)
(* progress monitor handed to them.  layout is a computed NetworkLayout of *)
(* network, extract_set and submodel the input and result of               *)
(* extract_submodel, params and render_output those of RenderOutput.       *)
(* metadata is the metadata field of network; outcome is the call and the  *)
(* answer of the last analysis query (None before the first).              *)
(***************************************************************************)
EXTENDS Integers, Sequences, FiniteSets, TLC

VARIABLES network, last_op, g1, g2, alignment, perfect, merged, cycles, cancelled,
          layout, extract_set, submodel, params, render_output,
          metadata, outcome, camera

vars == <<network, last_op, g1, g2, alignment, perfect, merged, cycles, cancelled,
          layout, extract_set, submodel, params, render_output,
          metadata, outcome, camera>>
netVars == <<network, last_op>>
alignVars == <<g1, g2, alignment, perfect, merged, cycles, cancelled>>
layoutVars == <<layout, extract_set, submodel, params, render_output>>
analysisVars == <<metadata, outcome, camera>>

(***************************************************************************)
(* Bounds of the model.                                                    *)
(***************************************************************************)
MaxLinks == 3
MaxSifLines == 2
MaxHops == 2

NodeIds == {"a", "b"}
Relations == {"r"}
DirectedValues == {"none", "some_true"}

NodeRank(n) ==
  CASE n = "" -> 0
    [] n = "a" -> 1
    [] n = "b" -> 2
    [] n = "c" -> 3
    [] n = "x" -> 4
    [] n = "y" -> 5
    [] n = "z" -> 6

NodeGt(m, n) == NodeRank(m) > NodeRank(n)

(***************************************************************************)
(* Link                                                                    *)
(***************************************************************************)
Link(s, t, rel) ==
  [source |-> s, target |-> t, relation |-> rel, directed |-> "none", is_shadow |-> FALSE]

with_shadow(s, t, rel, sh) ==
  [source |-> s, target |-> t, relation |-> rel, directed |-> "none", is_shadow |-> sh]

is_feedback(l) == l.source = l.target

\* Option<Link>: None for a self-loop, else the flagged link with swapped endpoints.
to_shadow(l) ==
  IF is_feedback(l)
  THEN <<>>
  ELSE <<[source |-> l.target, target |-> l.source, relation |-> l.relation,
          directed |-> l.directed, is_shadow |-> TRUE]>>

AllLinks ==
  [source : NodeIds, target : NodeIds, relation : Relations,
   directed : DirectedValues, is_shadow : BOOLEAN]

RealLinks == {l \in AllLinks : ~l.is_shadow}

(***************************************************************************)
(* Network                                                                 *)
(***************************************************************************)
EmptyMap == [n \in {} |-> <<>>]

AdjacencyDefault == [by_node |-> EmptyMap, is_built |-> FALSE]

NetworkNew ==
  [nodes |-> {}, links |-> <<>>, lone_nodes |-> {}, adjacency |-> AdjacencyDefault]

invalidate_adjacency(net) == [net EXCEPT !.adjacency = AdjacencyDefault]

add_node(net, id) == [net EXCEPT !.nodes = @ \cup {id}]

add_lone_node(net, id) ==
  [net EXCEPT !.nodes = @ \cup {id}, !.lone_nodes = @ \cup {id}]

add_link(net, l) ==
  [invalidate_adjacency(net) EXCEPT
     !.nodes = @ \cup {l.source, l.target},
     !.lone_nodes = @ \ {l.source, l.target},
     !.links = Append(@, l)]

link_count(net) == Len(net.links)
has_shadows(net) == \E i \in 1..Len(net.links) : net.links[i].is_shadow
shadow_count(net) == Cardinality({i \in 1..Len(net.links) : net.links[i].is_shadow})
regular_link_count(net) == Cardinality({i \in 1..Len(net.links) : ~net.links[i].is_shadow})

\* filter(!is_shadow).filter_map(to_shadow).collect() over the link list, in order.
RECURSIVE ShadowsOf(_)
ShadowsOf(ls) ==
  IF ls = <<>> THEN <<>>
  ELSE (IF Head(ls).is_shadow THEN <<>> ELSE to_shadow(Head(ls))) \o ShadowsOf(Tail(ls))

\* Variants of generate_shadows: skipping when shadows exist, flagging copies
\* without swapping their endpoints, and keeping the adjacency index.
generate_shadows_guarded(net) ==
  LET shadows == IF has_shadows(net) THEN <<>> ELSE ShadowsOf(net.links)
      pushed == [net EXCEPT !.links = @ \o shadows]
  IN IF Len(shadows) > 0 THEN invalidate_adjacency(pushed) ELSE pushed

generate_shadows_unflipped(net) ==
  LET kept == SelectSeq(net.links, LAMBDA l : ~l.is_shadow /\ ~is_feedback(l))
      shadows == [i \in 1..Len(kept) |-> [kept[i] EXCEPT !.is_shadow = TRUE]]
      pushed == [net EXCEPT !.links = @ \o shadows]
  IN IF Len(shadows) > 0 THEN invalidate_adjacency(pushed) ELSE pushed

generate_shadows_keeps_index(net) ==
  [net EXCEPT !.links = @ \o ShadowsOf(net.links)]

generate_shadows(net) ==
  LET shadows == ShadowsOf(net.links)
      pushed == [net EXCEPT !.links = @ \o shadows]
  IN IF Len(shadows) > 0 THEN invalidate_adjacency(pushed) ELSE pushed

DedupKey(l) ==
  IF l.directed # "some_true" /\ NodeGt(l.source, l.target)
  THEN <<l.target, l.source, l.relation, l.directed, l.is_shadow>>
  ELSE <<l.source, l.target, l.relation, l.directed, l.is_shadow>>

\* Vec::retain with HashSet::insert: keep the first link of every key.
RECURSIVE RetainUnseen(_, _)
RetainUnseen(ls, seen) ==
  IF ls = <<>> THEN <<>>
  ELSE IF DedupKey(Head(ls)) \in seen
       THEN RetainUnseen(Tail(ls), seen)
       ELSE <<Head(ls)>> \o RetainUnseen(Tail(ls), seen \cup {DedupKey(Head(ls))})

deduplicate_links(net) ==
  LET kept == RetainUnseen(net.links, {})
      retained == [net EXCEPT !.links = kept]
  IN IF Len(net.links) - Len(kept) > 0 THEN invalidate_adjacency(retained) ELSE retained

Touches(l, id) == l.source = id \/ l.target = id

\* The ascending sequence of the members of a set of link indices.
RECURSIVE Ascending(_)
Ascending(S) ==
  IF S = {} THEN <<>>
  ELSE LET m == CHOOSE i \in S : \A j \in S : i <= j
       IN <<m>> \o Ascending(S \ {m})

rebuild_adjacency_index(net) ==
  LET keys == net.nodes \cup {net.links[i].source : i \in 1..Len(net.links)}
                        \cup {net.links[i].target : i \in 1..Len(net.links)}
      by_node == [n \in keys |->
                    Ascending({i \in 1..Len(net.links) : Touches(net.links[i], n)})]
  IN [net EXCEPT !.adjacency = [by_node |-> by_node, is_built |-> TRUE]]

has_adjacency_index(net) == net.adjacency.is_built

adjacency_indices_for(net, id) ==
  IF net.adjacency.is_built /\ id \in DOMAIN net.adjacency.by_node
  THEN <<net.adjacency.by_node[id]>>
  ELSE <<>>

IndicesInRange(net, ix) == \A k \in 1..Len(ix) : ix[k] \in 1..Len(net.links)

\* The queries index self.links[i]: an index past the end of the list panics.
links_for_node(net, id) ==
  LET found == adjacency_indices_for(net, id)
  IN IF found # <<>>
     THEN IF IndicesInRange(net, found[1])
          THEN [panic |-> FALSE,
                links |-> [k \in 1..Len(found[1]) |-> net.links[found[1][k]]]]
          ELSE [panic |-> TRUE, links |-> <<>>]
     ELSE [panic |-> FALSE, links |-> SelectSeq(net.links, LAMBDA l : Touches(l, id))]

degree(net, id) ==
  LET found == adjacency_indices_for(net, id)
  IN IF found # <<>>
     THEN Len(found[1])
     ELSE Cardinality({i \in 1..Len(net.links) : Touches(net.links[i], id)})

\* filter_map: the other endpoint of every link that touches id (id itself for a self-loop).
OtherEnds(ls, idx, id) ==
  {ls[i].target : i \in {j \in idx : ls[j].source = id}}
    \cup {ls[i].source : i \in {j \in idx : ls[j].source # id /\ ls[j].target = id}}

neighbors(net, id) ==
  LET found == adjacency_indices_for(net, id)
  IN IF found # <<>>
     THEN IF IndicesInRange(net, found[1])
          THEN [panic |-> FALSE,
                ids |-> OtherEnds(net.links, {found[1][k] : k \in 1..Len(found[1])}, id)]
          ELSE [panic |-> TRUE, ids |-> {}]
     ELSE [panic |-> FALSE, ids |-> OtherEnds(net.links, 1..Len(net.links), id)]

\* One order of a set, standing for the iteration order of a HashSet.
RECURSIVE SetToSeq(_)
SetToSeq(S) ==
  IF S = {} THEN <<>>
  ELSE LET m == CHOOSE n \in S : \A o \in S : NodeRank(n) <= NodeRank(o)
       IN <<m>> \o SetToSeq(S \ {m})

\* The loop of n_hop_neighborhood: queue holds <<node, depth>> pairs.
RECURSIVE HopLoop(_, _, _, _)
HopLoop(net, visited, queue, max_hops) ==
  IF queue = <<>> THEN visited
  ELSE LET node_id == Head(queue)[1]
           depth == Head(queue)[2]
       IN IF depth >= max_hops
          THEN HopLoop(net, visited, Tail(queue), max_hops)
          ELSE LET fresh == neighbors(net, node_id).ids \ visited
                   pushed == [k \in 1..Cardinality(fresh) |-> <<SetToSeq(fresh)[k], depth + 1>>]
               IN HopLoop(net, visited \cup fresh, Tail(queue) \o pushed, max_hops)

\* n_hop_neighborhood that expands the nodes at depth max_hops as well.
n_hop_neighborhood_one_further(net, start, max_hops) ==
  HopLoop(net, {start}, <<<<start, 0>>>>, max_hops + 1)

n_hop_neighborhood(net, start, max_hops) ==
  HopLoop(net, {start}, <<<<start, 0>>>>, max_hops)

\* Variant of extract_subnetwork: a link is kept when either endpoint is selected.
extract_subnetwork_either(net, node_ids) ==
  [nodes |-> {id \in node_ids : id \in net.nodes},
   links |-> SelectSeq(net.links, LAMBDA l : l.source \in node_ids \/ l.target \in node_ids),
   lone_nodes |-> {},
   adjacency |-> AdjacencyDefault]

extract_subnetwork(net, node_ids) ==
  [nodes |-> {id \in node_ids : id \in net.nodes},
   links |-> SelectSeq(net.links, LAMBDA l : l.source \in node_ids /\ l.target \in node_ids),
   lone_nodes |-> {},
   adjacency |-> AdjacencyDefault]

extract_neighborhood(net, start, max_hops) ==
  extract_subnetwork(net, n_hop_neighborhood(net, start, max_hops))

(***************************************************************************)
(* SIF loader.  A line is its sequence of tokens (split, quotes stripped). *)
(***************************************************************************)
RECURSIVE SifLinks(_)
SifLinks(lines) ==
  IF lines = <<>> THEN <<>>
  ELSE LET tokens == Head(lines)
       IN (IF Len(tokens) = 3
           THEN LET link == Link(tokens[1], tokens[3], tokens[2])
                IN <<link>> \o (IF ~is_feedback(link) THEN to_shadow(link) ELSE <<>>)
           ELSE <<>>) \o SifLinks(Tail(lines))

RECURSIVE SifLoneNodes(_)
SifLoneNodes(lines) ==
  IF lines = <<>> THEN <<>>
  ELSE (IF Len(Head(lines)) = 1 THEN <<Head(lines)[1]>> ELSE <<>>) \o SifLoneNodes(Tail(lines))

RECURSIVE AddLinks(_, _)
AddLinks(net, ls) ==
  IF ls = <<>> THEN net ELSE AddLinks(add_link(net, Head(ls)), Tail(ls))

RECURSIVE AddLoneNodes(_, _)
AddLoneNodes(net, names) ==
  IF names = <<>> THEN net ELSE AddLoneNodes(add_lone_node(net, Head(names)), Tail(names))

parse_reader_with_stats(lines) ==
  AddLoneNodes(AddLinks(NetworkNew, SifLinks(lines)), SifLoneNodes(lines))

SifLineValues ==
  {<<s, rel, t>> : s \in NodeIds, rel \in Relations, t \in NodeIds}
    \cup {<<n>> : n \in NodeIds}
    \cup {<<n, rel>> : n \in {"a"}, rel \in Relations}

SifInputs == UNION {[1..k -> SifLineValues] : k \in 0..MaxSifLines}

(***************************************************************************)
(* The operations of a Network as actions.                                 *)
(***************************************************************************)
\* NetworkLayout::new, with the fields the operations below read or write.
NetworkLayoutNew ==
  [nodes |-> EmptyMap, links |-> <<>>, row_count |-> 0, column_count |-> 0,
   column_count_no_shadows |-> 0, node_annotations |-> <<>>,
   link_annotations |-> <<>>, link_annotations_no_shadows |-> <<>>]

\* NetworkMetadata::default() and no query answered yet.
NetworkMetadataDefault == [is_directed |-> FALSE, is_dag |-> <<>>]

\* Camera::for_canvas: centred at the origin with zoom 1.0. A real number is a
\* fraction <<numerator, denominator>>.
for_canvas(width, height) ==
  [center_x |-> <<0, 1>>, center_y |-> <<0, 1>>, zoom |-> <<1, 1>>,
   canvas_width |-> width, canvas_height |-> height]

AnalysisIdle ==
  /\ metadata = NetworkMetadataDefault
  /\ outcome = <<>>
  /\ camera = for_canvas(1, 1)

LayoutIdle ==
  /\ layout = NetworkLayoutNew
  /\ extract_set = {}
  /\ submodel = <<>>
  /\ params = <<>>
  /\ render_output = <<>>

AlignIdle ==
  /\ g1 = NetworkNew
  /\ g2 = NetworkNew
  /\ alignment = EmptyMap
  /\ perfect = <<>>
  /\ merged = <<>>
  /\ cycles = <<>>
  /\ cancelled = FALSE

Init ==
  /\ AnalysisIdle
  /\ network = NetworkNew
  /\ last_op = "other"
  /\ AlignIdle
  /\ LayoutIdle

AddNode ==
  \E id \in NodeIds :
    /\ network' = add_node(network, id)
    /\ last_op' = "other"
    /\ UNCHANGED <<analysisVars, alignVars, layoutVars>>

AddLoneNode ==
  \E id \in NodeIds :
    /\ network' = add_lone_node(network, id)
    /\ last_op' = "other"
    /\ UNCHANGED <<analysisVars, alignVars, layoutVars>>

AddRealLink ==
  \E l \in RealLinks :
    /\ Len(network.links) < MaxLinks
    /\ network' = add_link(network, l)
    /\ last_op' = "other"
    /\ UNCHANGED <<analysisVars, alignVars, layoutVars>>

AddShadowLink ==
  \E l \in AllLinks \ RealLinks :
    /\ Len(network.links) < MaxLinks
    /\ network' = add_link(network, l)
    /\ last_op' = "other"
    /\ UNCHANGED <<analysisVars, alignVars, layoutVars>>

GenerateShadows ==
  /\ Len(generate_shadows(network).links) <= MaxLinks
  /\ network' = generate_shadows(network)
  /\ last_op' = IF last_op = "other" THEN "generate_shadows" ELSE "generate_shadows_again"
  /\ UNCHANGED <<analysisVars, alignVars, layoutVars>>

DeduplicateLinks ==
  /\ network' = deduplicate_links(network)
  /\ last_op' = "other"
  /\ UNCHANGED <<analysisVars, alignVars, layoutVars>>

RebuildAdjacencyIndex ==
  /\ network' = rebuild_adjacency_index(network)
  /\ last_op' = "other"
  /\ UNCHANGED <<analysisVars, alignVars, layoutVars>>

\* The loader builds the network it returns: it acts on a fresh container.
LoadSif ==
  \E lines \in SifInputs :
    /\ network = NetworkNew
    /\ Len(parse_reader_with_stats(lines).links) <= MaxLinks
    /\ network' = parse_reader_with_stats(lines)
    /\ last_op' = "other"
    /\ UNCHANGED <<analysisVars, alignVars, layoutVars>>

\* links_mut() invalidates the index and hands out the list; the caller then edits it.
links_mut(net) == invalidate_adjacency(net)

LinkEdits(ls) ==
  {SelectSeq(ls, LAMBDA l : ~l.is_shadow)}
    \cup {SubSeq(ls, 1, i - 1) \o SubSeq(ls, i + 1, Len(ls)) : i \in 1..Len(ls)}
    \cup (IF Len(ls) < MaxLinks THEN {Append(ls, l) : l \in AllLinks} ELSE {})

LinksMut ==
  \E edited \in LinkEdits(network.links) :
    /\ network' = [links_mut(network) EXCEPT !.links = edited]
    /\ last_op' = "other"
    /\ UNCHANGED <<analysisVars, alignVars, layoutVars>>

\* The loader and the operations that keep the link list behind add_link.
Next ==
  \/ AddNode
  \/ AddLoneNode
  \/ AddRealLink
  \/ AddShadowLink
  \/ GenerateShadows
  \/ DeduplicateLinks
  \/ RebuildAdjacencyIndex
  \/ LoadSif

Spec == Init /\ [][Next]_vars

\* The same, add_link adding real links only.
NextReal ==
  \/ AddNode
  \/ AddLoneNode
  \/ AddRealLink
  \/ GenerateShadows
  \/ DeduplicateLinks
  \/ RebuildAdjacencyIndex
  \/ LoadSif

SpecReal == Init /\ [][NextReal]_vars

\* The operations of one container, edits through links_mut included.
NextMut ==
  \/ AddNode
  \/ AddLoneNode
  \/ AddRealLink
  \/ AddShadowLink
  \/ GenerateShadows
  \/ DeduplicateLinks
  \/ RebuildAdjacencyIndex
  \/ LinksMut

SpecMut == Init /\ [][NextMut]_vars

(***************************************************************************)
(* Claims about the Network container.                                     *)
(***************************************************************************)
RealWithEnds(net) ==
  {i \in 1..Len(net.links) : ~net.links[i].is_shadow /\ ~is_feedback(net.links[i])}

SameCounts(before, after) ==
  /\ link_count(after) = link_count(before)
  /\ shadow_count(after) = shadow_count(before)
  /\ regular_link_count(after) = regular_link_count(before)

IsShadowOf(sh, l) ==
  /\ sh.is_shadow
  /\ sh.source = l.target
  /\ sh.target = l.source
  /\ sh.relation = l.relation

ShadowsOfLink(net, i) ==
  {j \in 1..Len(net.links) : IsShadowOf(net.links[j], net.links[i])}

QueryIds == NodeIds \cup {"c"}

scan_links_for_node(net, id) == SelectSeq(net.links, LAMBDA l : Touches(l, id))
scan_degree(net, id) == Len(scan_links_for_node(net, id))
scan_neighbors(net, id) ==
  {n \in QueryIds : \E i \in 1..Len(net.links) :
     \/ net.links[i].source = id /\ net.links[i].target = n
     \/ net.links[i].target = id /\ net.links[i].source = n}

\* C4: degree, neighbors and links_for_node answer as a linear scan of the
\* current link list does, for every node id.
C4_QueriesMatchLinearScan ==
  \A id \in QueryIds :
    /\ degree(network, id) = scan_degree(network, id)
    /\ neighbors(network, id) = [panic |-> FALSE, ids |-> scan_neighbors(network, id)]
    /\ links_for_node(network, id) =
         [panic |-> FALSE, links |-> scan_links_for_node(network, id)]

\* A built index that answers for a node with a self-loop and a shadow link,
\* while another node was added after the index was built.
C4_Witness ==
  /\ has_adjacency_index(network)
  /\ \E id \in network.nodes : id \notin DOMAIN network.adjacency.by_node
  /\ \E i \in 1..Len(network.links) : is_feedback(network.links[i])
  /\ has_shadows(network)

EndpointsAreNodes(net) ==
  \A i \in 1..Len(net.links) :
    net.links[i].source \in net.nodes /\ net.links[i].target \in net.nodes

\* C5: the endpoints of every link are nodes of the same network, in the
\* container and in every network extract_subnetwork or extract_neighborhood
\* returns from it.
C5_EndpointsAreNodes ==
  /\ EndpointsAreNodes(network)
  /\ \A S \in SUBSET QueryIds : EndpointsAreNodes(extract_subnetwork(network, S))
  /\ \A start \in QueryIds : \A hops \in 0..MaxHops :
       EndpointsAreNodes(extract_neighborhood(network, start, hops))

\* An extraction that keeps a link and drops another one.
C5_Witness ==
  \E S \in SUBSET QueryIds :
    LET sub == extract_subnetwork(network, S)
    IN /\ Len(sub.links) > 0
       /\ Len(sub.links) < Len(network.links)
       /\ extract_neighborhood(network, "a", 0) = sub

(***************************************************************************)
(* Alignment cycle and path detection.                                     *)
(***************************************************************************)
G1Names == {"a", "b", "c"}
G2Names == {"x", "y", "z"}

\* AlignmentMap = HashMap<NodeId, NodeId>: the partial maps from G1 to G2 names.
AlignmentMaps == UNION {[D -> G2Names] : D \in SUBSET G1Names}

MergedName(g1_name, g2_name) == <<g1_name, g2_name>>

CycleCases ==
  <<"CorrectlyUnalignedBlue", "CorrectlyUnalignedRed", "CorrectSingleton",
    "IncorrectSingleton", "PathRedBlue", "PathRedPurple", "PathPurpleBlue",
    "PathRedPurpleBlue", "IncorrectCycle">>

\* CycleCase::index, 1-based here.
CaseIndex(case) == CHOOSE k \in 1..9 : CycleCases[k] = case

\* The maps collect() can build from the (g2, g1) pairs of the perfect alignment:
\* when two G1 nodes share a G2 node, the pair the HashMap yields last wins.
PerfectInverses(perf) ==
  IF perf = <<>>
  THEN {EmptyMap}
  ELSE LET p == perf[1]
           image == {p[k] : k \in DOMAIN p}
       IN {inv \in [image -> DOMAIN p] : \A v \in image : p[inv[v]] = v}

PerfectGet(perf, g1_name) ==
  IF perf # <<>> /\ g1_name \in DOMAIN perf[1] THEN <<perf[1][g1_name]>> ELSE <<>>

\* ChainWalk that never marks a G1 node as visited, cut off two iterations past
\* the number of alignment keys plus one.
RECURSIVE ChainWalkUnmarked(_, _, _, _)
ChainWalkUnmarked(align, perfect_inv, g1_start, walk) ==
  LET curr_g1 == walk.curr_g1
      entered == [walk EXCEPT !.iterations = @ + 1]
  IN IF curr_g1 \in walk.visited_g1 \/ entered.iterations > Cardinality(DOMAIN align) + 2
     THEN [entered EXCEPT !.ended = "next_g1_visited"]
     ELSE IF curr_g1 \notin DOMAIN align
     THEN [entered EXCEPT !.ended = "next_g1_unaligned"]
     ELSE LET curr_g2 == align[curr_g1]
              pushed == [entered EXCEPT
                           !.chain_g1 = Append(@, curr_g1),
                           !.chain_g2 = Append(@, curr_g2),
                           !.visited_g2 = @ \cup {curr_g2},
                           !.chain_nodes = Append(@, MergedName(curr_g1, curr_g2))]
          IN IF curr_g2 \in DOMAIN perfect_inv
             THEN ChainWalkUnmarked(align, perfect_inv, g1_start,
                                    [pushed EXCEPT !.curr_g1 = perfect_inv[curr_g2]])
             ELSE [pushed EXCEPT !.ended = "no_perfect_inverse"]

\* The chain loop of detect.  walk holds the loop's variables; iterations counts
\* the passes through the loop body and ended names the break that was taken.
RECURSIVE ChainWalk(_, _, _, _)
ChainWalk(align, perfect_inv, g1_start, walk) ==
  LET curr_g1 == walk.curr_g1
      entered == [walk EXCEPT !.iterations = @ + 1]
  IN IF curr_g1 \in walk.visited_g1
     THEN IF curr_g1 = g1_start /\ walk.chain_g1 # <<>>
          THEN [entered EXCEPT !.is_cycle = TRUE, !.ended = "returned_to_start"]
          ELSE [entered EXCEPT !.ended = "next_g1_visited"]
     ELSE LET marked == [entered EXCEPT !.visited_g1 = @ \cup {curr_g1}]
          IN IF curr_g1 \notin DOMAIN align
             THEN [marked EXCEPT !.ended = "next_g1_unaligned"]
             ELSE LET curr_g2 == align[curr_g1]
                      pushed == [marked EXCEPT
                                   !.chain_g1 = Append(@, curr_g1),
                                   !.chain_g2 = Append(@, curr_g2),
                                   !.visited_g2 = @ \cup {curr_g2},
                                   !.chain_nodes = Append(@, MergedName(curr_g1, curr_g2))]
                  IN IF curr_g2 \in DOMAIN perfect_inv
                     THEN ChainWalk(align, perfect_inv, g1_start,
                                    [pushed EXCEPT !.curr_g1 = perfect_inv[curr_g2]])
                     ELSE [pushed EXCEPT !.ended = "no_perfect_inverse"]

\* The case pushed for a chain that is neither a singleton nor closed.
OpenChainCase(walk) == "IncorrectCycle"

PushEntry(acc, case, nodes, ended, iterations) ==
  [acc EXCEPT
     !.entries = Append(@, [case |-> case, nodes |-> nodes]),
     !.case_counts = [@ EXCEPT ![CaseIndex(case)] = @ + 1],
     !.walks = Append(@, [ended |-> ended, iterations |-> iterations])]

\* DetectStep with a chain walk that forgets the nodes earlier passes visited.
DetectStepFreshWalk(align, perf, perfect_inv, acc, g1_start) ==
  IF g1_start \in acc.visited_g1
  THEN acc
  ELSE IF g1_start \in DOMAIN align
  THEN LET g2_node == align[g1_start]
           is_correct == PerfectGet(perf, g1_start) = <<g2_node>>
       IN IF is_correct
          THEN PushEntry([acc EXCEPT !.visited_g1 = @ \cup {g1_start},
                                     !.visited_g2 = @ \cup {g2_node}],
                         "CorrectSingleton", <<MergedName(g1_start, g2_node)>>,
                         "correct", 0)
          ELSE LET walk == ChainWalk(align, perfect_inv, g1_start,
                             [curr_g1 |-> g1_start, is_cycle |-> FALSE,
                              chain_nodes |-> <<>>, chain_g1 |-> <<>>, chain_g2 |-> <<>>,
                              visited_g1 |-> {}, visited_g2 |-> {},
                              iterations |-> 0, ended |-> "running"])
                   after == [acc EXCEPT !.visited_g1 = @ \cup walk.visited_g1,
                                        !.visited_g2 = @ \cup walk.visited_g2]
               IN IF walk.chain_nodes = <<>>
                  THEN after
                  ELSE IF Len(walk.chain_nodes) = 1 /\ ~walk.is_cycle
                  THEN PushEntry(after, "IncorrectSingleton", walk.chain_nodes,
                                 walk.ended, walk.iterations)
                  ELSE IF walk.is_cycle
                  THEN PushEntry(after, "IncorrectCycle", walk.chain_nodes,
                                 walk.ended, walk.iterations)
                  ELSE PushEntry(after, OpenChainCase(walk), walk.chain_nodes,
                                 walk.ended, walk.iterations)
  ELSE LET seen == [acc EXCEPT !.visited_g1 = @ \cup {g1_start}]
       IN IF perf # <<>> /\ PerfectGet(perf, g1_start) = <<>>
          THEN PushEntry(seen, "CorrectlyUnalignedBlue", <<MergedName(g1_start, "")>>,
                         "unaligned", 0)
          ELSE seen

\* One pass of the loop over g1_sorted, for g1_start.
DetectStep(align, perf, perfect_inv, acc, g1_start) ==
  IF g1_start \in acc.visited_g1
  THEN acc
  ELSE IF g1_start \in DOMAIN align
  THEN LET g2_node == align[g1_start]
           is_correct == PerfectGet(perf, g1_start) = <<g2_node>>
       IN IF is_correct
          THEN PushEntry([acc EXCEPT !.visited_g1 = @ \cup {g1_start},
                                     !.visited_g2 = @ \cup {g2_node}],
                         "CorrectSingleton", <<MergedName(g1_start, g2_node)>>,
                         "correct", 0)
          ELSE LET walk == ChainWalk(align, perfect_inv, g1_start,
                             [curr_g1 |-> g1_start, is_cycle |-> FALSE,
                              chain_nodes |-> <<>>, chain_g1 |-> <<>>, chain_g2 |-> <<>>,
                              visited_g1 |-> acc.visited_g1, visited_g2 |-> acc.visited_g2,
                              iterations |-> 0, ended |-> "running"])
                   after == [acc EXCEPT !.visited_g1 = walk.visited_g1,
                                        !.visited_g2 = walk.visited_g2]
               IN IF walk.chain_nodes = <<>>
                  THEN after
                  ELSE IF Len(walk.chain_nodes) = 1 /\ ~walk.is_cycle
                  THEN PushEntry(after, "IncorrectSingleton", walk.chain_nodes,
                                 walk.ended, walk.iterations)
                  ELSE IF walk.is_cycle
                  THEN PushEntry(after, "IncorrectCycle", walk.chain_nodes,
                                 walk.ended, walk.iterations)
                  ELSE PushEntry(after, OpenChainCase(walk), walk.chain_nodes,
                                 walk.ended, walk.iterations)
  ELSE LET seen == [acc EXCEPT !.visited_g1 = @ \cup {g1_start}]
       IN IF perf # <<>> /\ PerfectGet(perf, g1_start) = <<>>
          THEN PushEntry(seen, "CorrectlyUnalignedBlue", <<MergedName(g1_start, "")>>,
                         "unaligned", 0)
          ELSE seen

RECURSIVE DetectLoop(_, _, _, _, _)
DetectLoop(align, perf, perfect_inv, acc, g1_sorted) ==
  IF g1_sorted = <<>> THEN acc
  ELSE DetectLoop(align, perf, perfect_inv,
                  DetectStep(align, perf, perfect_inv, acc, Head(g1_sorted)),
                  Tail(g1_sorted))

\* AlignmentCycles::detect; walks is kept beside entries, one record per entry.
detect(align, perf, perfect_inv) ==
  LET all_g1 == DOMAIN align
      g1_sorted == SetToSeq(all_g1)
      done == DetectLoop(align, perf, perfect_inv,
                         [visited_g1 |-> {}, visited_g2 |-> {}, entries |-> <<>>,
                          case_counts |-> [k \in 1..9 |-> 0], walks |-> <<>>],
                         g1_sorted)
  IN [entries |-> done.entries, case_counts |-> done.case_counts, walks |-> done.walks]

InitCycles ==
  /\ AnalysisIdle
  /\ network = NetworkNew
  /\ last_op = "other"
  /\ g1 = NetworkNew
  /\ g2 = NetworkNew
  /\ alignment \in AlignmentMaps
  /\ perfect \in {<<>>} \cup {<<p>> : p \in AlignmentMaps}
  /\ merged = <<>>
  /\ cycles = <<>>
  /\ cancelled = FALSE
  /\ LayoutIdle

Detect ==
  /\ cycles = <<>>
  /\ \E perfect_inv \in PerfectInverses(perfect) :
       cycles' = <<detect(alignment, perfect, perfect_inv)>>
  /\ UNCHANGED <<analysisVars, netVars, layoutVars, g1, g2, alignment, perfect, merged, cancelled>>

NextCycles == Detect

SpecCycles == InitCycles /\ [][NextCycles]_vars

PathCases == {"PathRedBlue", "PathRedPurple", "PathPurpleBlue", "PathRedPurpleBlue"}

\* C3: an entry is labelled IncorrectCycle only when its chain walk returned to
\* its start node, and a chain of two or more nodes whose walk ended at an
\* unaligned G1 node or at a G2 node without perfect inverse carries a path case.
C3_Case9OnlyForClosedChains ==
  cycles # <<>> =>
    \A k \in 1..Len(cycles[1].entries) :
      /\ cycles[1].entries[k].case = "IncorrectCycle" =>
           cycles[1].walks[k].ended = "returned_to_start"
      /\ (Len(cycles[1].entries[k].nodes) >= 2
            /\ cycles[1].walks[k].ended \in {"next_g1_unaligned", "no_perfect_inverse"}) =>
           cycles[1].entries[k].case \in PathCases

(***************************************************************************)
(* Merging two networks under an alignment.                                *)
(***************************************************************************)
MaxMergeLines == 2

G1MergeNames == {"a", "b"}
G2MergeNames == {"x", "y"}

\* NodeId order on merged names: the names here hold no ':' and have one
\* letter, so comparing "g1::g2" strings is comparing the halves in turn.
MergedLe(m, n) ==
  \/ NodeRank(m[1]) < NodeRank(n[1])
  \/ m[1] = n[1] /\ NodeRank(m[2]) <= NodeRank(n[2])

NormKey(src, tgt) == IF MergedLe(src, tgt) THEN <<src, tgt>> ELSE <<tgt, src>>

Put(map, k, v) == (k :> v) @@ map

short_code(edge_type) ==
  CASE edge_type = "Covered" -> "G12"
    [] edge_type = "InducedGraph1" -> "pBp"
    [] edge_type = "HalfOrphanGraph1" -> "pBb"
    [] edge_type = "FullOrphanGraph1" -> "bBb"
    [] edge_type = "InducedGraph2" -> "pRp"
    [] edge_type = "HalfUnalignedGraph2" -> "pRr"
    [] edge_type = "FullUnalignedGraph2" -> "rRr"

\* 1a. The loop over the alignment, in the order the HashMap yields its entries.
RECURSIVE CreatePurple(_, _, _, _)
CreatePurple(align, perf, order, m) ==
  IF order = <<>> THEN m
  ELSE LET g1_node == Head(order)
           g2_node == align[g1_node]
           node_id == MergedName(g1_node, g2_node)
           is_correct == PerfectGet(perf, g1_node) = <<g2_node>>
       IN CreatePurple(align, perf, Tail(order),
            [node_colors |-> Put(m.node_colors, node_id, "Purple"),
             node_origins |-> Put(m.node_origins, node_id,
                                  [g1 |-> <<g1_node>>, g2 |-> <<g2_node>>]),
             g1_to_merged |-> Put(m.g1_to_merged, g1_node, node_id),
             g2_to_merged |-> Put(m.g2_to_merged, g2_node, node_id),
             merged_to_correct |->
               IF m.merged_to_correct = <<>> THEN <<>>
               ELSE <<Put(m.merged_to_correct[1], node_id, is_correct)>>])

\* The endpoints of the non-shadow links, and the lone nodes.
OriginalNodes(net) ==
  {net.links[i].source : i \in {j \in 1..Len(net.links) : ~net.links[j].is_shadow}}
    \cup {net.links[i].target : i \in {j \in 1..Len(net.links) : ~net.links[j].is_shadow}}
    \cup net.lone_nodes

\* 1b. Each insert has its own key, so the order of the HashSet does not show.
CreateBlue(g1_nodes, perf, m) ==
  LET blue == {n \in g1_nodes : n \notin DOMAIN m.g1_to_merged}
      ids == {MergedName(n, "") : n \in blue}
  IN [m EXCEPT
        !.node_colors = [k \in ids |-> "Blue"] @@ m.node_colors,
        !.node_origins = [k \in ids |-> [g1 |-> <<k[1]>>, g2 |-> <<>>]] @@ m.node_origins,
        !.g1_to_merged = [n \in blue |-> MergedName(n, "")] @@ m.g1_to_merged,
        !.merged_to_correct =
          IF m.merged_to_correct = <<>> THEN <<>>
          ELSE <<[k \in ids |-> perf # <<>> /\ PerfectGet(perf, k[1]) = <<>>]
                   @@ m.merged_to_correct[1]>>]

\* 1c.
CreateRed(g2_nodes, m) ==
  LET red == {n \in g2_nodes : n \notin DOMAIN m.g2_to_merged}
      ids == {MergedName("", n) : n \in red}
  IN [m EXCEPT
        !.node_colors = [k \in ids |-> "Red"] @@ m.node_colors,
        !.node_origins = [k \in ids |-> [g1 |-> <<>>, g2 |-> <<k[2]>>]] @@ m.node_origins,
        !.g2_to_merged = [n \in red |-> MergedName("", n)] @@ m.g2_to_merged]

RECURSIVE TransformLinksKeepAll(_, _, _)
TransformLinksKeepAll(links, to_merged, link_set) ==
  IF links = <<>> THEN <<>>
  ELSE LET link == Head(links)
       IN IF link.is_shadow
          THEN TransformLinksKeepAll(Tail(links), to_merged, link_set)
          ELSE <<<<to_merged[link.source], to_merged[link.target]>>>>
                 \o TransformLinksKeepAll(Tail(links), to_merged, link_set)

\* 2. The non-shadow links under merged names, one per normalized pair.  Every
\* endpoint of a non-shadow link is a key of to_merged, so no lookup fails.
RECURSIVE TransformLinks(_, _, _)
TransformLinks(links, to_merged, link_set) ==
  IF links = <<>> THEN <<>>
  ELSE LET link == Head(links)
       IN IF link.is_shadow
          THEN TransformLinks(Tail(links), to_merged, link_set)
          ELSE LET new_src == to_merged[link.source]
                   new_tgt == to_merged[link.target]
                   key == NormKey(new_src, new_tgt)
               IN IF key \in link_set
                  THEN TransformLinks(Tail(links), to_merged, link_set)
                  ELSE <<<<new_src, new_tgt>>>>
                         \o TransformLinks(Tail(links), to_merged, link_set \cup {key})

EdgeSet(new_links) == {NormKey(new_links[i][1], new_links[i][2]) : i \in 1..Len(new_links)}

G2EdgeType(src, tgt, g1_edge_set, aligned_nodes_g2) ==
  IF NormKey(src, tgt) \in g1_edge_set THEN "Covered"
  ELSE IF src \in aligned_nodes_g2 /\ tgt \in aligned_nodes_g2 THEN "InducedGraph2"
  ELSE IF src \in aligned_nodes_g2 \/ tgt \in aligned_nodes_g2 THEN "HalfUnalignedGraph2"
  ELSE "FullUnalignedGraph2"

G1EdgeTypeAnyPurple(src, tgt, aligned_nodes_g1) ==
  IF src \in aligned_nodes_g1 \/ tgt \in aligned_nodes_g1 THEN "InducedGraph1"
  ELSE "FullOrphanGraph1"

G1EdgeType(src, tgt, aligned_nodes_g1) ==
  IF src \in aligned_nodes_g1 /\ tgt \in aligned_nodes_g1 THEN "InducedGraph1"
  ELSE IF src \in aligned_nodes_g1 \/ tgt \in aligned_nodes_g1 THEN "HalfOrphanGraph1"
  ELSE "FullOrphanGraph1"

EmitLinkOneType(acc, src, tgt, edge_type) ==
  LET tag == short_code(edge_type)
      real == add_link(acc.network, Link(src, tgt, tag))
  IN [network |-> IF src # tgt THEN add_link(real, with_shadow(tgt, src, tag, TRUE))
                  ELSE real,
      edge_types |-> Append(acc.edge_types, edge_type)]

\* The non-shadow link, then its shadow unless it is a self-loop, each with its
\* entry of edge_types.
EmitLink(acc, src, tgt, edge_type) ==
  LET tag == short_code(edge_type)
      real == [network |-> add_link(acc.network, Link(src, tgt, tag)),
               edge_types |-> Append(acc.edge_types, edge_type)]
  IN IF src # tgt
     THEN [network |-> add_link(real.network, with_shadow(tgt, src, tag, TRUE)),
           edge_types |-> Append(real.edge_types, edge_type)]
     ELSE real

RECURSIVE G2Pass(_, _, _, _)
G2Pass(new_links_g2, g1_edge_set, aligned_nodes_g2, acc) ==
  IF new_links_g2 = <<>> THEN acc
  ELSE LET src == Head(new_links_g2)[1]
           tgt == Head(new_links_g2)[2]
       IN G2Pass(Tail(new_links_g2), g1_edge_set, aligned_nodes_g2,
                 EmitLink(acc, src, tgt,
                          G2EdgeType(src, tgt, g1_edge_set, aligned_nodes_g2)))

RECURSIVE G1Pass(_, _, _, _)
G1Pass(new_links_g1, g2_edge_set, aligned_nodes_g1, acc) ==
  IF new_links_g1 = <<>> THEN acc
  ELSE LET src == Head(new_links_g1)[1]
           tgt == Head(new_links_g1)[2]
       IN G1Pass(Tail(new_links_g1), g2_edge_set, aligned_nodes_g1,
                 IF NormKey(src, tgt) \in g2_edge_set THEN acc
                 ELSE EmitLink(acc, src, tgt, G1EdgeType(src, tgt, aligned_nodes_g1)))

AddMergedLoneNodes(net, lone, to_merged) ==
  LET ids == {to_merged[n] : n \in lone \cap DOMAIN to_merged}
  IN [net EXCEPT !.nodes = @ \cup ids, !.lone_nodes = @ \cup ids]

\* MergedNetwork::from_alignment; order is the order in which the alignment's
\* entries are visited.
from_alignment(g1net, g2net, align, perf, order) ==
  LET purple == CreatePurple(align, perf, order,
                  [node_colors |-> EmptyMap, node_origins |-> EmptyMap,
                   g1_to_merged |-> EmptyMap, g2_to_merged |-> EmptyMap,
                   merged_to_correct |-> IF perf # <<>> THEN <<EmptyMap>> ELSE <<>>])
      g1_nodes == OriginalNodes(g1net)
      g2_nodes == OriginalNodes(g2net)
      m == CreateRed(g2_nodes, CreateBlue(g1_nodes, perf, purple))
      new_links_g1 == TransformLinks(g1net.links, m.g1_to_merged, {})
      new_links_g2 == TransformLinks(g2net.links, m.g2_to_merged, {})
      aligned_nodes_g1 == {m.g1_to_merged[k] : k \in DOMAIN align}
      aligned_nodes_g2 == {m.g2_to_merged[align[k]] : k \in DOMAIN align}
      from_g2 == G2Pass(new_links_g2, EdgeSet(new_links_g1), aligned_nodes_g2,
                        [network |-> NetworkNew, edge_types |-> <<>>])
      from_g1 == G1Pass(new_links_g1, EdgeSet(new_links_g2), aligned_nodes_g1, from_g2)
  IN [network |-> AddMergedLoneNodes(
                    AddMergedLoneNodes(from_g1.network, g1net.lone_nodes, m.g1_to_merged),
                    g2net.lone_nodes, m.g2_to_merged),
      node_colors |-> m.node_colors,
      edge_types |-> from_g1.edge_types,
      node_origins |-> m.node_origins,
      merged_to_correct |-> m.merged_to_correct,
      g1_node_count |-> Cardinality(g1_nodes),
      g2_node_count |-> Cardinality(g2_nodes),
      aligned_count |-> Cardinality(DOMAIN align)]

count_by_color(m, color) ==
  Cardinality({k \in DOMAIN m.node_colors : m.node_colors[k] = color})

SifLinesOver(names) ==
  {<<s, rel, t>> : s \in names, rel \in Relations, t \in names}
    \cup {<<n>> : n \in names}

\* The networks a SIF file of at most MaxMergeLines lines over names loads as.
MergeInputs(names) ==
  {parse_reader_with_stats(lines) :
     lines \in UNION {[1..k -> SifLinesOver(names)] : k \in 0..MaxMergeLines}}

\* Alignments whose keys may lie outside G1 and which may share a G2 node.
MergeAlignments == UNION {[D -> G2MergeNames] : D \in SUBSET G1Names}

\* The orders in which a HashMap with these keys can yield its entries.
Orders(keys) ==
  {o \in [1..Cardinality(keys) -> keys] : \A i, j \in DOMAIN o : o[i] = o[j] => i = j}

InitMerge ==
  /\ AnalysisIdle
  /\ network = NetworkNew
  /\ last_op = "other"
  /\ g1 \in MergeInputs(G1MergeNames)
  /\ g2 \in MergeInputs(G2MergeNames)
  /\ alignment \in MergeAlignments
  /\ perfect = <<>>
  /\ merged = <<>>
  /\ cycles = <<>>
  /\ cancelled = FALSE
  /\ LayoutIdle

Merge ==
  /\ merged = <<>>
  /\ \E order \in Orders(DOMAIN alignment) :
       merged' = <<from_alignment(g1, g2, alignment, perfect, order)>>
  /\ UNCHANGED <<analysisVars, netVars, layoutVars, g1, g2, alignment, perfect, cycles, cancelled>>

NextMerge == Merge

SpecMerge == InitMerge /\ [][NextMerge]_vars

K3Lines(n1, n2, n3) == <<<<n1, "r", n2>>, <<n1, "r", n3>>, <<n2, "r", n3>>>>

\* G1 = K3 on {a,b,c} and G2 = K3 on {x,y,z}, under every alignment between them.
InitK3 ==
  /\ AnalysisIdle
  /\ network = NetworkNew
  /\ last_op = "other"
  /\ g1 = parse_reader_with_stats(K3Lines("a", "b", "c"))
  /\ g2 = parse_reader_with_stats(K3Lines("x", "y", "z"))
  /\ alignment \in AlignmentMaps
  /\ perfect \in {<<>>, <<[n \in {"a", "b", "c"} |->
                           CASE n = "a" -> "x" [] n = "b" -> "y" [] n = "c" -> "z"]>>}
  /\ merged = <<>>
  /\ cycles = <<>>
  /\ cancelled = FALSE
  /\ LayoutIdle

NextK3 == Merge

SpecK3 == InitK3 /\ [][NextK3]_vars

(***************************************************************************)
(* Properties of the merged network.                                       *)
(***************************************************************************)

\* C6: in every merged network the Red and the Purple nodes together number
\* g2_node_count, also when the alignment maps two G1 nodes to one G2 node.
C6_RedPlusPurpleIsG2NodeCount ==
  merged # <<>> =>
    count_by_color(merged[1], "Red") + count_by_color(merged[1], "Purple")
      = merged[1].g2_node_count

\* C7: in every merged network the Blue and the Purple nodes together number
\* g1_node_count, also when a key of the alignment is no node of G1.
C7_BluePlusPurpleIsG1NodeCount ==
  merged # <<>> =>
    count_by_color(merged[1], "Blue") + count_by_color(merged[1], "Purple")
      = merged[1].g1_node_count

Joining(net, p, q, shadow) ==
  {i \in 1..Len(net.links) :
     /\ net.links[i].is_shadow = shadow
     /\ {net.links[i].source, net.links[i].target} = {p, q}}

\* C8: in the merged network every unordered pair of nodes is joined by at
\* most one non-shadow link and at most one shadow link, and the pair has a
\* shadow link exactly when it has a non-shadow link and its two nodes differ.
C8_OneRealAndOneShadowPerPair ==
  merged # <<>> =>
    LET net == merged[1].network
    IN \A p, q \in net.nodes :
         /\ Cardinality(Joining(net, p, q, FALSE)) <= 1
         /\ Cardinality(Joining(net, p, q, TRUE)) <= 1
         /\ Joining(net, p, q, TRUE) # {} <=> (Joining(net, p, q, FALSE) # {} /\ p # q)

\* A merge in which G1 held a pair of nodes twice, G2 held the aligned pair as
\* well, and the merged network has a self-loop next to it.
C8_Witness ==
  /\ merged # <<>>
  /\ Cardinality({i \in 1..Len(g1.links) : ~g1.links[i].is_shadow /\ ~is_feedback(g1.links[i])}) = 2
  /\ \E i \in 1..Len(merged[1].edge_types) : merged[1].edge_types[i] = "Covered"
  /\ \E i \in 1..Len(merged[1].network.links) : is_feedback(merged[1].network.links[i])
  /\ \E i \in 1..Len(merged[1].network.links) : merged[1].network.links[i].is_shadow

\* C9: edge_types is as long as the merged network's links, and the relation
\* of every link, shadow or not, is the short tag of the edge type at its index.
C9_EdgeTypesParallelToLinks ==
  merged # <<>> =>
    /\ Len(merged[1].edge_types) = Len(merged[1].network.links)
    /\ \A i \in 1..Len(merged[1].network.links) :
         merged[1].network.links[i].relation = short_code(merged[1].edge_types[i])

\* A merge that emitted links from both passes, shadows among them.
C9_Witness ==
  /\ merged # <<>>
  /\ \E i, j, k \in 1..Len(merged[1].network.links) :
       /\ merged[1].network.links[i].is_shadow
       /\ merged[1].edge_types[j] \in {"InducedGraph2", "HalfUnalignedGraph2", "FullUnalignedGraph2"}
       /\ merged[1].edge_types[k] \in {"InducedGraph1", "HalfOrphanGraph1", "FullOrphanGraph1"}

\* The edge types of the links that join p and q.
TypesJoining(m, p, q) ==
  {m.edge_types[i] : i \in {j \in 1..Len(m.network.links) :
                              {m.network.links[j].source, m.network.links[j].target} = {p, q}}}

AlignmentAxBy == [n \in {"a", "b"} |-> IF n = "a" THEN "x" ELSE "y"]

\* C10: merging K3 on {a,b,c} with K3 on {x,y,z} under {a->x, b->y} makes
\* a::x -- c:: and b::y -- c:: InducedGraph1 and a::x -- b::y Covered.
C10_HalfPurpleEdgesAreInducedGraph1 ==
  (merged # <<>> /\ alignment = AlignmentAxBy) =>
    /\ TypesJoining(merged[1], MergedName("a", "x"), MergedName("c", "")) = {"InducedGraph1"}
    /\ TypesJoining(merged[1], MergedName("b", "y"), MergedName("c", "")) = {"InducedGraph1"}
    /\ TypesJoining(merged[1], MergedName("a", "x"), MergedName("b", "y")) = {"Covered"}

\* C10 as the merge computes it: under {a->x, b->y} the edges a::x -- c:: and
\* b::y -- c:: have one Purple endpoint and are HalfOrphanGraph1, and
\* a::x -- b::y is Covered.
C10_HalfPurpleEdgesAreHalfOrphanGraph1 ==
  (merged # <<>> /\ alignment = AlignmentAxBy) =>
    /\ TypesJoining(merged[1], MergedName("a", "x"), MergedName("c", "")) = {"HalfOrphanGraph1"}
    /\ TypesJoining(merged[1], MergedName("b", "y"), MergedName("c", "")) = {"HalfOrphanGraph1"}
    /\ TypesJoining(merged[1], MergedName("a", "x"), MergedName("b", "y")) = {"Covered"}

C10_Witness ==
  /\ merged # <<>>
  /\ alignment = AlignmentAxBy
  /\ Len(merged[1].network.links) = 10

(***************************************************************************)
(* Cancellation of the merge and of the cycle detection.                   *)
(***************************************************************************)
\* The caller's side of the progress monitor: the cancellation flag is set.
Cancel ==
  /\ ~cancelled
  /\ cancelled' = TRUE
  /\ UNCHANGED <<analysisVars, netVars, layoutVars, g1, g2, alignment, perfect, merged, cycles>>

\* Both operations take the monitor as _monitor and never read it, so Merge
\* and Detect run the same with the flag set as without it.
NextCancel == Cancel \/ Merge \/ Detect

SpecCancel == InitK3 /\ [][NextCancel]_vars

\* C11: a merge or a cycle detection that runs with the cancellation flag set
\* ends with a cancellation error: it returns no merged network and no cycles.
C11_CancelledOperationsReturnNothing ==
  [][cancelled => (merged' = merged /\ cycles' = cycles)]_vars

(***************************************************************************)
(* Layout results: NodeLayout, LinkLayout and submodel extraction.         *)
(* Rows and columns count from 0 as in the code.  Option<T> is <<>> or     *)
(* <<v>>.  The display fields (color_index, nid, directed) are left out.   *)
(***************************************************************************)
\* usize::MAX, the min_col of a node without edges; it is only compared, and
\* is held at the largest integer the checker has.
USIZE_MAX == 2147483647

MaxLayoutLinks == 3

LayoutNodeIds == {"a", "b", "c"}

NodeLayoutInfoNew(row, name) ==
  [row |-> row, min_col |-> USIZE_MAX, max_col |-> 0,
   min_col_no_shadows |-> USIZE_MAX, max_col_no_shadows |-> 0, name |-> name,
   plain_drain_zones |-> <<>>, shadow_drain_zones |-> <<>>]

Min2(i, j) == IF i <= j THEN i ELSE j
Max2(i, j) == IF i >= j THEN i ELSE j
MaxOf(S) == CHOOSE m \in S : \A o \in S : o <= m
MinOf(S) == CHOOSE m \in S : \A o \in S : m <= o

update_span(nl, column) ==
  [nl EXCEPT !.min_col = Min2(@, column), !.max_col = Max2(@, column)]

update_span_no_shadows(nl, column) ==
  [nl EXCEPT !.min_col_no_shadows = Min2(@, column),
             !.max_col_no_shadows = Max2(@, column)]

has_edges(nl) == nl.min_col <= nl.max_col
has_edges_no_shadows(nl) == nl.min_col_no_shadows <= nl.max_col_no_shadows

LinkLayoutNew(column, source, target, source_row, target_row, relation, is_shadow) ==
  [column |-> column, column_no_shadows |-> <<>>, source_row |-> source_row,
   target_row |-> target_row, source |-> source, target |-> target,
   relation |-> relation, is_shadow |-> is_shadow]

top_row(ll) == Min2(ll.source_row, ll.target_row)
bottom_row(ll) == Max2(ll.source_row, ll.target_row)

\* Steps 5 and 7 of the edge layout: the links, already in placement order,
\* get the next column of each stream and widen the spans of their endpoints.
RECURSIVE AssignColumns(_, _, _)
AssignColumns(lay, ls, node_to_row) ==
  IF ls = <<>> THEN lay
  ELSE LET l == Head(ls)
           col == lay.column_count
           col_ns == lay.column_count_no_shadows
           ll == [LinkLayoutNew(col, l.source, l.target, node_to_row[l.source],
                                node_to_row[l.target], l.relation, l.is_shadow)
                    EXCEPT !.column_no_shadows = IF l.is_shadow THEN <<>> ELSE <<col_ns>>]
           spanned(nl) == IF l.is_shadow THEN update_span(nl, col)
                          ELSE update_span_no_shadows(update_span(nl, col), col_ns)
       IN AssignColumns(
            [lay EXCEPT
               !.links = Append(@, ll),
               !.nodes = [n \in DOMAIN @ |->
                            IF n \in {l.source, l.target} THEN spanned(@[n]) ELSE @[n]],
               !.column_count = @ + 1,
               !.column_count_no_shadows = IF l.is_shadow THEN @ ELSE @ + 1],
            Tail(ls), node_to_row)

\* The layout of net with its nodes in the rows of order and its links placed
\* in the order of its link list.
ComputedLayout(net, order) ==
  LET node_to_row == [n \in net.nodes |-> (CHOOSE i \in DOMAIN order : order[i] = n) - 1]
  IN AssignColumns(
       [NetworkLayoutNew EXCEPT
          !.nodes = [n \in net.nodes |-> NodeLayoutInfoNew(node_to_row[n], n)],
          !.row_count = Cardinality(net.nodes)],
       net.links, node_to_row)

\* A compression map whose positions count from the largest value down.
CompressionMapDescending(need) == [v \in need |-> Cardinality({w \in need : w > v})]

\* BTreeSet -> position map: full-scale value to mini-scale value.
CompressionMap(need) == [v \in need |-> Cardinality({w \in need : w < v})]

ExtendZone(dz, c) ==
  IF dz = <<>> THEN <<<<c, c>>>> ELSE <<<<Min2(dz[1][1], c), Max2(dz[1][2], c)>>>>

FirstIndex(ls, Test(_)) ==
  LET found == {i \in 1..Len(ls) : Test(ls[i])}
  IN IF found = {} THEN <<>> ELSE <<ls[MinOf(found)]>>

\* The plain drain zone scan, from col down to range_min.
RECURSIVE PlainDrainScan(_, _, _, _, _, _)
PlainDrainScan(id, new_row, compressed_links, col, range_min, dz) ==
  IF col < range_min THEN dz
  ELSE LET link == FirstIndex(compressed_links,
                     LAMBDA ll : ~ll.is_shadow /\ ll.column_no_shadows = <<col>>)
       IN IF link = <<>> THEN dz
          ELSE IF link[1].source # id /\ link[1].target # id THEN dz
          ELSE IF bottom_row(link[1]) = new_row /\ top_row(link[1]) # new_row THEN dz
          ELSE PlainDrainScan(id, new_row, compressed_links, col - 1, range_min,
                 IF top_row(link[1]) = new_row THEN ExtendZone(dz, col) ELSE dz)

\* The shadow drain zone scan, from c up to range_max.
RECURSIVE ShadowDrainScan(_, _, _, _, _, _)
ShadowDrainScan(id, new_row, compressed_links, c, range_max, dz) ==
  IF c > range_max THEN dz
  ELSE LET link == FirstIndex(compressed_links, LAMBDA ll : ll.column = c)
       IN IF link = <<>>
          THEN ShadowDrainScan(id, new_row, compressed_links, c + 1, range_max, dz)
          ELSE IF dz # <<>> /\ link[1].source # id /\ link[1].target # id THEN dz
          ELSE LET qualifies == \/ top_row(link[1]) = new_row /\ ~link[1].is_shadow
                                \/ bottom_row(link[1]) = new_row /\ link[1].is_shadow
               IN ShadowDrainScan(id, new_row, compressed_links, c + 1, range_max,
                    IF qualifies THEN ExtendZone(dz, c) ELSE dz)

CompressLink(ll, row_map, col_map, shad_col_map) ==
  [LinkLayoutNew(shad_col_map[ll.column], ll.source, ll.target, row_map[ll.source_row],
                 row_map[ll.target_row], ll.relation, ll.is_shadow)
     EXCEPT !.column_no_shadows =
       IF ll.is_shadow \/ ll.column_no_shadows = <<>> THEN <<>>
       ELSE <<col_map[ll.column_no_shadows[1]]>>]

CompressNodeOwnSpan(id, nl, maps, max_link_col, max_shad_link_col, compressed_links) ==
  LET mine == {i \in 1..Len(compressed_links) :
                 id \in {compressed_links[i].source, compressed_links[i].target}}
      real == {i \in mine : compressed_links[i].column_no_shadows # <<>>}
  IN [NodeLayoutInfoNew(maps.row_map[nl.row], nl.name) EXCEPT
        !.min_col_no_shadows = IF has_edges_no_shadows(nl)
                               THEN maps.col_map[nl.min_col_no_shadows] ELSE @,
        !.max_col_no_shadows = IF real # {}
                               THEN MaxOf({compressed_links[i].column_no_shadows[1] : i \in real})
                               ELSE @,
        !.min_col = IF has_edges(nl) THEN maps.shad_col_map[nl.min_col] ELSE @,
        !.max_col = IF mine # {} THEN MaxOf({compressed_links[i].column : i \in mine}) ELSE @,
        !.plain_drain_zones = <<<<>>>>,
        !.shadow_drain_zones = <<<<>>>>]

\* One pass of the loop over nodes_sorted.
CompressNode(id, nl, maps, max_link_col, max_shad_link_col, compressed_links) ==
  LET new_row == maps.row_map[nl.row]
      spans == [NodeLayoutInfoNew(new_row, nl.name) EXCEPT
                  !.min_col_no_shadows = IF has_edges_no_shadows(nl)
                                         THEN maps.col_map[nl.min_col_no_shadows] ELSE @,
                  !.max_col_no_shadows = IF has_edges_no_shadows(nl) THEN max_link_col ELSE @,
                  !.min_col = IF has_edges(nl) THEN maps.shad_col_map[nl.min_col] ELSE @,
                  !.max_col = IF has_edges(nl) THEN max_shad_link_col ELSE @]
      plain == IF spans.max_col_no_shadows >= spans.min_col_no_shadows
                  /\ spans.max_col_no_shadows # USIZE_MAX
               THEN PlainDrainScan(id, new_row, compressed_links, spans.max_col_no_shadows,
                                   spans.min_col_no_shadows, <<>>)
               ELSE <<>>
      shadow == IF spans.max_col >= spans.min_col /\ spans.min_col # USIZE_MAX
                THEN ShadowDrainScan(id, new_row, compressed_links, spans.min_col,
                                     spans.max_col, <<>>)
                ELSE <<>>
  IN [spans EXCEPT !.plain_drain_zones = <<plain>>, !.shadow_drain_zones = <<shadow>>]


\* NetworkLayout::extract_submodel: the pair (sub_network, new_layout).
extract_submodel(lay, net, set) ==
  LET sub_links == SelectSeq(lay.links, LAMBDA ll : ll.source \in set /\ ll.target \in set)
      kept == DOMAIN lay.nodes \cap set
      real == {i \in 1..Len(sub_links) :
                 ~sub_links[i].is_shadow /\ sub_links[i].column_no_shadows # <<>>}
      need_rows == {lay.nodes[n].row : n \in kept}
                     \cup {sub_links[i].source_row : i \in 1..Len(sub_links)}
                     \cup {sub_links[i].target_row : i \in 1..Len(sub_links)}
      need_columns ==
        {lay.nodes[n].min_col_no_shadows : n \in {k \in kept : has_edges_no_shadows(lay.nodes[k])}}
          \cup {sub_links[i].column_no_shadows[1] : i \in real}
      need_columns_shad ==
        {lay.nodes[n].min_col : n \in {k \in kept : has_edges(lay.nodes[k])}}
          \cup {sub_links[i].column : i \in 1..Len(sub_links)}
      maps == [row_map |-> CompressionMap(need_rows),
               col_map |-> CompressionMap(need_columns),
               shad_col_map |-> CompressionMap(need_columns_shad)]
      compressed_links ==
        [i \in 1..Len(sub_links) |->
           CompressLink(sub_links[i], maps.row_map, maps.col_map, maps.shad_col_map)]
      new_cols == {compressed_links[i].column_no_shadows[1] : i \in real}
      new_shad_cols == {compressed_links[i].column : i \in 1..Len(sub_links)}
      max_link_col == IF new_cols = {} THEN 1 ELSE MaxOf(new_cols) + 1
      max_shad_link_col == IF new_shad_cols = {} THEN 1 ELSE MaxOf(new_shad_cols) + 1
  IN [network |-> extract_subnetwork(net, set),
      layout |-> [NetworkLayoutNew EXCEPT
                    !.nodes = [id \in kept |->
                                 CompressNode(id, lay.nodes[id], maps, max_link_col,
                                              max_shad_link_col, compressed_links)],
                    !.links = compressed_links,
                    !.row_count = Cardinality(need_rows),
                    !.column_count = max_shad_link_col,
                    !.column_count_no_shadows = max_link_col]]

\* Networks of at most MaxLayoutLinks real links, with or without a lone node
\* and with or without their shadows.  A link is written from its smaller to
\* its larger node id; the row orders put either end on top.
LayoutNetworks ==
  LET ends == {e \in LayoutNodeIds \X LayoutNodeIds : ~NodeGt(e[1], e[2])}
      real == {Link(e[1], e[2], rel) : e \in ends, rel \in Relations}
      built == {AddLoneNodes(AddLinks(NetworkNew, ls), SetToSeq(lone)) :
                  ls \in UNION {[1..k -> real] : k \in 0..MaxLayoutLinks},
                  lone \in SUBSET {"c"}}
  IN built \cup {generate_shadows(net) : net \in built}

InitExtract ==
  /\ AnalysisIdle
  /\ network \in LayoutNetworks
  /\ last_op = "other"
  /\ AlignIdle
  /\ \E order \in Orders(network.nodes) : layout = ComputedLayout(network, order)
  /\ extract_set \in SUBSET LayoutNodeIds
  /\ submodel = <<>>
  /\ params = <<>>
  /\ render_output = <<>>

ExtractSubmodel ==
  /\ submodel = <<>>
  /\ submodel' = <<extract_submodel(layout, network, extract_set)>>
  /\ UNCHANGED <<analysisVars, netVars, alignVars, layout, extract_set, params, render_output>>

NextExtract == ExtractSubmodel

SpecExtract == InitExtract /\ [][NextExtract]_vars

(***************************************************************************)
(* Properties of submodel extraction.                                      *)
(***************************************************************************)
\* The links of the full layout that the extraction retains, in order: the
\* i-th of them becomes the i-th link of the extracted layout.
RetainedLinks ==
  SelectSeq(layout.links, LAMBDA ll : ll.source \in extract_set /\ ll.target \in extract_set)

SubColumns(lay) == {lay.links[i].column : i \in 1..Len(lay.links)}
SubColumnsNoShadows(lay) ==
  {lay.links[i].column_no_shadows[1] :
     i \in {j \in 1..Len(lay.links) : ~lay.links[j].is_shadow
                                        /\ lay.links[j].column_no_shadows # <<>>}}

\* C12: in the extracted layout the columns of the links are exactly
\* 0 .. column_count - 1 and the column_no_shadows values of the non-shadow
\* links are exactly 0 .. column_count_no_shadows - 1.
C12_ColumnStreamsAreContiguous ==
  submodel # <<>> =>
    /\ SubColumns(submodel[1].layout) = 0..(submodel[1].layout.column_count - 1)
    /\ SubColumnsNoShadows(submodel[1].layout)
         = 0..(submodel[1].layout.column_count_no_shadows - 1)

\* C13: extraction keeps relative order: two retained nodes compare by row,
\* and two retained links by column (and by column_no_shadows when both are
\* real), in the extracted layout as in the full layout.
C13_ExtractionPreservesOrder ==
  submodel # <<>> =>
    LET sub == submodel[1].layout
    IN /\ Len(sub.links) = Len(RetainedLinks)
       /\ \A n, o \in DOMAIN sub.nodes :
            (layout.nodes[n].row < layout.nodes[o].row) <=> (sub.nodes[n].row < sub.nodes[o].row)
       /\ \A i, j \in 1..Len(sub.links) :
            /\ (RetainedLinks[i].column < RetainedLinks[j].column)
                 <=> (sub.links[i].column < sub.links[j].column)
            /\ (~RetainedLinks[i].is_shadow /\ ~RetainedLinks[j].is_shadow) =>
                 /\ sub.links[i].column_no_shadows # <<>>
                 /\ sub.links[j].column_no_shadows # <<>>
                 /\ (RetainedLinks[i].column_no_shadows[1] < RetainedLinks[j].column_no_shadows[1])
                      <=> (sub.links[i].column_no_shadows[1] < sub.links[j].column_no_shadows[1])

\* An extraction that drops a link placed before two retained real links, and
\* a node in a row above a retained node.
C13_Witness ==
  /\ submodel # <<>>
  /\ Cardinality({i \in 1..Len(submodel[1].layout.links) :
                    ~submodel[1].layout.links[i].is_shadow}) >= 2
  /\ Len(layout.links) > Len(RetainedLinks)
  /\ ~(layout.links[1].source \in extract_set /\ layout.links[1].target \in extract_set)
  /\ \E n \in DOMAIN layout.nodes \ extract_set : layout.nodes[n].row = 0

\* C14: after extraction every retained node that has edges has max_col equal
\* to the largest column of a retained link, and max_col_no_shadows equal to
\* the largest column_no_shadows of a retained real link.
C14_MaxColIsLargestAssignedColumn ==
  submodel # <<>> =>
    LET sub == submodel[1].layout
    IN \A n \in DOMAIN sub.nodes :
         /\ (has_edges(layout.nodes[n]) /\ SubColumns(sub) # {}) =>
              sub.nodes[n].max_col = MaxOf(SubColumns(sub))
         /\ (has_edges_no_shadows(layout.nodes[n]) /\ SubColumnsNoShadows(sub) # {}) =>
              sub.nodes[n].max_col_no_shadows = MaxOf(SubColumnsNoShadows(sub))

\* C14 as the extraction computes it: every retained node with edges in the
\* full layout has max_col equal to the extracted column_count and
\* max_col_no_shadows equal to the extracted column_count_no_shadows, each one
\* more than the largest column of its stream, or 1 when the stream is empty.
C14_MaxColIsColumnCount ==
  submodel # <<>> =>
    LET sub == submodel[1].layout
    IN /\ sub.column_count
            = IF SubColumns(sub) = {} THEN 1 ELSE MaxOf(SubColumns(sub)) + 1
       /\ sub.column_count_no_shadows
            = IF SubColumnsNoShadows(sub) = {} THEN 1 ELSE MaxOf(SubColumnsNoShadows(sub)) + 1
       /\ \A n \in DOMAIN sub.nodes :
            /\ has_edges(layout.nodes[n]) => sub.nodes[n].max_col = sub.column_count
            /\ has_edges_no_shadows(layout.nodes[n]) =>
                 sub.nodes[n].max_col_no_shadows = sub.column_count_no_shadows

\* An extraction with retained links, shadows among them, and a retained node
\* whose own links end before the last retained column.
C14_Witness ==
  /\ submodel # <<>>
  /\ \E i \in 1..Len(submodel[1].layout.links) : submodel[1].layout.links[i].is_shadow
  /\ \E n \in DOMAIN submodel[1].layout.nodes :
       /\ has_edges(layout.nodes[n])
       /\ \A i \in 1..Len(submodel[1].layout.links) :
            n \in {submodel[1].layout.links[i].source, submodel[1].layout.links[i].target}
              => submodel[1].layout.links[i].column + 1 < submodel[1].layout.column_count

\* C15: the layout of a network without edges has column_count 0, and so has
\* the extracted layout when no link has both endpoints in the extract set.
C15_NoEdgesNoColumns ==
  /\ Len(network.links) = 0 => layout.column_count = 0
  /\ (submodel # <<>> /\ Len(submodel[1].layout.links) = 0) =>
       submodel[1].layout.column_count = 0

----------------------------------------------------------------------------
\* Link-group annotations (layout/default.rs)

MaxAnnotLinks == 4

LinkGroups == {"r", "s"}

\* Annotation::new(name, start, end, layer, color).
AnnotationNew(name, start, end, layer, color) ==
  [name |-> name, start |-> start, end |-> end, layer |-> layer, color |-> color]

\* AnnotationSet::add: the set keeps its annotations in the order added.
AnnotationSetAdd(annots, a) == Append(annots, a)

ANNOT_COLORS ==
  <<"#FFE0B2", "#B3E5FC", "#C8E6C9", "#F8BBD0", "#D1C4E9", "#FFF9C4", "#B2DFDB", "#FFCCBC">>

\* A later duplicate in link_groups overwrites the earlier entry.
build_default_color_map(link_groups) ==
  [g \in {link_groups[i] : i \in DOMAIN link_groups} |->
     LET i == CHOOSE k \in DOMAIN link_groups :
                /\ link_groups[k] = g
                /\ \A o \in DOMAIN link_groups : link_groups[o] = g => o <= k
     IN ANNOT_COLORS[((i - 1) % Len(ANNOT_COLORS)) + 1]]

get_annot_color(relation, colors) ==
  IF relation \in DOMAIN colors THEN colors[relation] ELSE "#CCCCCC"

\* One iteration of the loop over layout.links; st holds the locals
\* annots, last_type, start_pos, end_pos and count.
GroupStep(st, ll, shadow, colors) ==
  IF ll.is_shadow /\ ~shadow THEN st
  ELSE LET opened ==
             IF st.last_type = <<>>
             THEN [st EXCEPT !.last_type = <<ll.relation>>, !.start_pos = st.count]
             ELSE IF st.last_type[1] = ll.relation THEN st
             ELSE [st EXCEPT
                     !.annots = AnnotationSetAdd(@,
                                  AnnotationNew(st.last_type[1], st.start_pos, st.end_pos, 0,
                                                get_annot_color(st.last_type[1], colors))),
                     !.last_type = <<ll.relation>>,
                     !.start_pos = st.count]
       IN [opened EXCEPT !.end_pos = st.count, !.count = st.count + 1]

RECURSIVE GroupLoop(_, _, _, _)
GroupLoop(st, ls, shadow, colors) ==
  IF ls = <<>> THEN st
  ELSE GroupLoop(GroupStep(st, Head(ls), shadow, colors), Tail(ls), shadow, colors)

\* The group scan without the test that leaves shadow links out.
calc_group_link_annots_all_links(lay, shadow, link_groups, color_map) ==
  LET colors == IF color_map = <<>> THEN build_default_color_map(link_groups) ELSE color_map[1]
      st == GroupLoop([annots |-> <<>>, last_type |-> <<>>, start_pos |-> 0, end_pos |-> 0,
                       count |-> 0], lay.links, TRUE, colors)
  IN IF st.last_type = <<>> THEN st.annots
     ELSE AnnotationSetAdd(st.annots,
            AnnotationNew(st.last_type[1], st.start_pos, st.end_pos, 0,
                          get_annot_color(st.last_type[1], colors)))

\* color_map is an Option: <<>> or <<map>>.
calc_group_link_annots(lay, shadow, link_groups, color_map) ==
  LET colors == IF color_map = <<>> THEN build_default_color_map(link_groups) ELSE color_map[1]
      st == GroupLoop([annots |-> <<>>, last_type |-> <<>>, start_pos |-> 0, end_pos |-> 0,
                       count |-> 0], lay.links, shadow, colors)
  IN IF st.last_type = <<>> THEN st.annots
     ELSE AnnotationSetAdd(st.annots,
            AnnotationNew(st.last_type[1], st.start_pos, st.end_pos, 0,
                          get_annot_color(st.last_type[1], colors)))

install_link_annotations(lay, link_groups, color_map) ==
  LET with_shadows == [lay EXCEPT !.link_annotations =
                         calc_group_link_annots(lay, TRUE, link_groups, color_map)]
  IN [with_shadows EXCEPT !.link_annotations_no_shadows =
        calc_group_link_annots(with_shadows, FALSE, link_groups, color_map)]

\* Link lists over the nodes a, b with two relations: real links in both
\* orientations and shadow links, in any placement order.
AnnotLinkValues ==
  {with_shadow(e[1], e[2], rel, sh) :
     e \in {<<"a", "b">>, <<"b", "a">>}, rel \in LinkGroups, sh \in BOOLEAN}

AnnotNetworks ==
  {AddLinks(NetworkNew, ls) : ls \in UNION {[1..k -> AnnotLinkValues] : k \in 0..MaxAnnotLinks}}

LinkGroupOrders == {<<"r", "s">>, <<"s", "r">>, <<"s">>}

ColorMaps == {<<>>, <<[g \in {"r"} |-> "#000000"]>>}

InitAnnots ==
  /\ AnalysisIdle
  /\ network \in AnnotNetworks
  /\ last_op = "other"
  /\ AlignIdle
  /\ \E order \in Orders(network.nodes) : layout = ComputedLayout(network, order)
  /\ extract_set = {}
  /\ submodel = <<>>
  /\ params = <<>>
  /\ render_output = <<>>

InstallLinkAnnotations ==
  /\ last_op # "install_link_annotations"
  /\ \E link_groups \in LinkGroupOrders, color_map \in ColorMaps :
       layout' = install_link_annotations(layout, link_groups, color_map)
  /\ last_op' = "install_link_annotations"
  /\ UNCHANGED <<analysisVars, network, alignVars, extract_set, submodel, params, render_output>>

NextAnnots == InstallLinkAnnotations

SpecAnnots == InitAnnots /\ [][NextAnnots]_vars

Considered(shadow) == SelectSeq(layout.links, LAMBDA ll : shadow \/ ~ll.is_shadow)

RunCount(ls) ==
  IF ls = <<>> THEN 0
  ELSE 1 + Cardinality({i \in 2..Len(ls) : ls[i].relation # ls[i - 1].relation})

OneAnnotationPerRun(annots, ls) ==
  /\ Len(annots) = RunCount(ls)
  /\ annots # <<>> => annots[1].start = 0 /\ annots[Len(annots)].end = Len(ls) - 1
  /\ \A k \in 1..Len(annots) :
       /\ annots[k].start <= annots[k].end
       /\ \A p \in annots[k].start..annots[k].end :
            p + 1 \in 1..Len(ls) /\ ls[p + 1].relation = annots[k].name
  /\ \A k \in 1..(Len(annots) - 1) :
       /\ annots[k + 1].start = annots[k].end + 1
       /\ annots[k + 1].name # annots[k].name

\* C20: the installed link annotations are one per maximal run of equal
\* relations among the considered links (all links for link_annotations, the
\* non-shadow links for link_annotations_no_shadows), in column order, with
\* consecutive ranges that cover every considered position and with different
\* names on neighbouring annotations.
C20_OneAnnotationPerRelationRun ==
  last_op = "install_link_annotations" =>
    /\ OneAnnotationPerRun(layout.link_annotations, Considered(TRUE))
    /\ OneAnnotationPerRun(layout.link_annotations_no_shadows, Considered(FALSE))
    /\ \A p \in 1..Len(Considered(TRUE)) : Considered(TRUE)[p].column = p - 1
    /\ \A p \in 1..Len(Considered(FALSE)) : Considered(FALSE)[p].column_no_shadows = <<p - 1>>

\* Annotations installed on a layout where a shadow link separates two real
\* links of one relation: three runs with shadows, fewer without.
C20_Witness ==
  /\ last_op = "install_link_annotations"
  /\ Len(layout.link_annotations) >= 3
  /\ Len(layout.link_annotations_no_shadows) >= 1
  /\ Len(layout.link_annotations_no_shadows) < Len(layout.link_annotations)
  /\ \E i \in 1..Len(layout.links) : layout.links[i].is_shadow

----------------------------------------------------------------------------
\* Render extraction (render/viewport.rs, render/gpu_data.rs)
\*
\* Grid coordinates are f64 in the source; the viewports here have integer
\* coordinates, on which the comparisons of the source are exact.  The zoom
\* (pixels per grid unit) is kept in hundredths.  Colours are left out of the
\* instances.

MaxRenderLinks == 3
MaxViewOrigin == 2
MaxViewSize == 1

Viewport(x, y, width, height) == [x |-> x, y |-> y, width |-> width, height |-> height]

right(vp) == vp.x + vp.width
bottom(vp) == vp.y + vp.height

intersects_node(vp, row, min_col, max_col) ==
  /\ row >= vp.y
  /\ row <= bottom(vp)
  /\ max_col >= vp.x
  /\ min_col <= right(vp)

intersects_link(vp, column, top, bot) ==
  /\ column >= vp.x
  /\ column <= right(vp)
  /\ bot >= vp.y
  /\ top <= bottom(vp)

\* LodLevel::from_zoom on hundredths: 2.0 is 200 and 0.2 is 20.
from_zoom(ppu) ==
  IF ppu >= 200 THEN "Full" ELSE IF ppu >= 20 THEN "Culled" ELSE "Sparse"

\* ceil(1.0 / pixels_per_grid_unit).max(1.0) for Sparse, 1 otherwise.
decimation_factor(lod, ppu) ==
  IF lod \in {"Full", "Culled"} THEN 1 ELSE Max2((100 + ppu - 1) \div ppu, 1)

RenderParamsNew(viewport, ppu, show_shadows) ==
  [viewport |-> viewport, pixels_per_grid_unit |-> ppu, lod |-> from_zoom(ppu),
   show_shadows |-> show_shadows]

\* Phase 0: one rectangle per annotation whose range meets the viewport.
NodeAnnotationBatch(lay, vp, total_cols) ==
  LET kept == SelectSeq(lay.node_annotations,
                        LAMBDA ann : ~(ann.end < vp.y \/ ann.start > bottom(vp)))
  IN [k \in 1..Len(kept) |->
        [x |-> 0, y |-> kept[k].start, w |-> total_cols,
         h |-> kept[k].end - kept[k].start + 1]]

LinkAnnotationBatch(lay, vp, show_shadows) ==
  LET link_ann_set == IF show_shadows THEN lay.link_annotations
                      ELSE lay.link_annotations_no_shadows
      kept == SelectSeq(link_ann_set,
                        LAMBDA ann : ~(ann.end < vp.x \/ ann.start > right(vp)))
  IN [k \in 1..Len(kept) |->
        [x |-> kept[k].start, y |-> 0, w |-> kept[k].end - kept[k].start + 1,
         h |-> lay.row_count]]

\* The nodes of the layout in the order of its map, which is the row order.
NodesInOrder(lay) ==
  [i \in 1..Cardinality(DOMAIN lay.nodes) |->
     CHOOSE n \in DOMAIN lay.nodes : lay.nodes[n].row = i - 1]

\* Phase 1: node lines, clipped to the viewport; id names the node drawn.
RECURSIVE NodeBatch(_, _, _, _, _)
NodeBatch(lay, vp, show_shadows, decimation, i) ==
  IF i >= Cardinality(DOMAIN lay.nodes) THEN <<>>
  ELSE LET id == NodesInOrder(lay)[i + 1]
           nl == lay.nodes[id]
           min_c == IF show_shadows THEN nl.min_col ELSE nl.min_col_no_shadows
           max_c == IF show_shadows THEN nl.max_col ELSE nl.max_col_no_shadows
           has == IF show_shadows THEN has_edges(nl) ELSE has_edges_no_shadows(nl)
           skip == \/ (decimation > 1 /\ i % decimation # 0)
                   \/ ~has
                   \/ ~intersects_node(vp, nl.row, min_c, max_c)
           rest == NodeBatch(lay, vp, show_shadows, decimation, i + 1)
       IN IF skip THEN rest
          ELSE <<[x0 |-> Max2(min_c, vp.x), y0 |-> nl.row,
                  x1 |-> Min2(max_c, right(vp)), y1 |-> nl.row, id |-> id]>> \o rest

\* Phase 2: link lines, clipped to the viewport; index is the position of the
\* link drawn in layout.links.
RECURSIVE LinkBatch(_, _, _, _, _)
LinkBatch(lay, vp, show_shadows, decimation, i) ==
  IF i >= Len(lay.links) THEN <<>>
  ELSE LET ll == lay.links[i + 1]
           col == IF show_shadows THEN <<ll.column>> ELSE ll.column_no_shadows
           skip == \/ (~show_shadows /\ ll.is_shadow)
                   \/ (decimation > 1 /\ i % decimation # 0)
                   \/ col = <<>>
                   \/ ~intersects_link(vp, col[1], top_row(ll), bottom_row(ll))
           rest == LinkBatch(lay, vp, show_shadows, decimation, i + 1)
       IN IF skip THEN rest
          ELSE <<[x0 |-> col[1], y0 |-> Max2(top_row(ll), vp.y),
                  x1 |-> col[1], y1 |-> Min2(bottom_row(ll), bottom(vp)),
                  index |-> i + 1]>> \o rest

\* RenderOutput::extract; show_shadows records the setting the output was
\* extracted under.
RenderExtract(lay, ps) ==
  LET vp == ps.viewport
      decimation == decimation_factor(ps.lod, ps.pixels_per_grid_unit)
      total_cols == IF ps.show_shadows THEN lay.column_count
                    ELSE lay.column_count_no_shadows
  IN [node_annotations |-> NodeAnnotationBatch(lay, vp, total_cols),
      link_annotations |-> LinkAnnotationBatch(lay, vp, ps.show_shadows),
      nodes |-> NodeBatch(lay, vp, ps.show_shadows, decimation, 0),
      links |-> LinkBatch(lay, vp, ps.show_shadows, decimation, 0),
      show_shadows |-> ps.show_shadows]

\* Placement orders of a real link a--b, its shadow, and a second real link
\* of another relation.
RenderLinkValues ==
  {Link("a", "b", "r"), to_shadow(Link("a", "b", "r"))[1], Link("a", "b", "s")}

RenderNetworks ==
  {AddLinks(NetworkNew, ls) : ls \in UNION {[1..k -> RenderLinkValues] : k \in 0..MaxRenderLinks}}

Viewports ==
  {Viewport(x, y, w, h) : x \in 0..MaxViewOrigin, y \in 0..MaxViewOrigin,
                          w \in 0..MaxViewSize, h \in 0..MaxViewSize}

Zooms == {200, 50, 10}

InitRender ==
  /\ AnalysisIdle
  /\ network \in RenderNetworks
  /\ last_op = "other"
  /\ AlignIdle
  /\ \E order \in Orders(network.nodes) : layout = ComputedLayout(network, order)
  /\ extract_set = {}
  /\ submodel = <<>>
  /\ \E vp \in Viewports, ppu \in Zooms, show \in BOOLEAN :
       params = <<RenderParamsNew(vp, ppu, show)>>
  /\ render_output = <<>>

\* Annotation installation ends the layout phase, before anything is drawn.
InstallForRender ==
  /\ render_output = <<>>
  /\ last_op # "install_link_annotations"
  /\ layout' = install_link_annotations(layout, <<"r", "s">>, <<>>)
  /\ last_op' = "install_link_annotations"
  /\ UNCHANGED <<analysisVars, network, alignVars, extract_set, submodel, params, render_output>>

\* The display option changes; the other parameters stay.
SetShowShadows ==
  /\ params' = <<RenderParamsNew(params[1].viewport, params[1].pixels_per_grid_unit,
                                 ~params[1].show_shadows)>>
  /\ UNCHANGED <<analysisVars, netVars, alignVars, layout, extract_set, submodel, render_output>>

\* One extraction per setting of show_shadows; render_output keeps them all.
Render ==
  /\ \A k \in 1..Len(render_output) : render_output[k].show_shadows # params[1].show_shadows
  /\ render_output' = Append(render_output, RenderExtract(layout, params[1]))
  /\ UNCHANGED <<analysisVars, netVars, alignVars, layout, extract_set, submodel, params>>

NextRender == InstallForRender \/ SetShowShadows \/ Render

SpecRender == InitRender /\ [][NextRender]_vars

NonShadowLinksDrawn(out) ==
  {out.links[k].index : k \in 1..Len(out.links)} \cap
    {i \in 1..Len(layout.links) : ~layout.links[i].is_shadow}

\* C16: the extractions of one layout under one viewport and zoom with
\* show_shadows on and off draw the same set of non-shadow links.
C16_ShadowToggleKeepsRealLinks ==
  \A i, j \in 1..Len(render_output) :
    NonShadowLinksDrawn(render_output[i]) = NonShadowLinksDrawn(render_output[j])

\* C17: with a viewport of zero width or zero height every batch of the
\* extraction is empty.
C17_EmptyViewportEmptyBatches ==
  (params # <<>> /\ (params[1].viewport.width = 0 \/ params[1].viewport.height = 0)) =>
    \A k \in 1..Len(render_output) :
      /\ render_output[k].nodes = <<>>
      /\ render_output[k].links = <<>>
      /\ render_output[k].node_annotations = <<>>
      /\ render_output[k].link_annotations = <<>>

----------------------------------------------------------------------------
\* Cycle detection over the nodes of G1 (alignment/cycle.rs)

\* The positions <<entry, place>> at which the G1 node u stands in the node
\* lists of the detected entries.
PlacesOf(u) ==
  {pl \in {<<e, k>> : e \in 1..Len(cycles[1].entries), k \in 1..3} :
     /\ pl[2] <= Len(cycles[1].entries[pl[1]].nodes)
     /\ cycles[1].entries[pl[1]].nodes[pl[2]][1] = u}

\* C18: every G1 node that is a key of the alignment stands in the node list
\* of exactly one entry, once, and no other G1 node stands in any.
C18_EntriesPartitionAlignedNodes ==
  cycles # <<>> =>
    /\ \A u \in DOMAIN alignment : Cardinality(PlacesOf(u)) = 1
    /\ \A u \in G1Names \ DOMAIN alignment : PlacesOf(u) = {}

\* A detection against a perfect alignment that yields a chain of two nodes
\* beside another entry.
C18_Witness ==
  /\ cycles # <<>>
  /\ perfect # <<>>
  /\ DOMAIN alignment = G1Names
  /\ Len(cycles[1].entries) = 2
  /\ \E e \in 1..2 : Len(cycles[1].entries[e].nodes) = 2

\* The caller's G1 is a network that holds at least the aligned nodes; detect
\* is handed the two alignments only.
InitCyclesG1 ==
  /\ AnalysisIdle
  /\ network = NetworkNew
  /\ last_op = "other"
  /\ alignment \in AlignmentMaps
  /\ \E N \in SUBSET G1Names :
       /\ DOMAIN alignment \subseteq N
       /\ g1 = AddLoneNodes(NetworkNew, SetToSeq(N))
  /\ g2 = NetworkNew
  /\ perfect \in {<<>>} \cup {<<p>> : p \in AlignmentMaps}
  /\ merged = <<>>
  /\ cycles = <<>>
  /\ cancelled = FALSE
  /\ LayoutIdle

SpecCyclesG1 == InitCyclesG1 /\ [][NextCycles]_vars

\* C19: with a perfect alignment given, every G1 node that the alignment leaves
\* unaligned and the perfect alignment does not map has a
\* CorrectlyUnalignedBlue entry whose single node is the node itself.
C19_UnalignedNodesAreCase1 ==
  (cycles # <<>> /\ perfect # <<>>) =>
    \A u \in g1.nodes \ (DOMAIN alignment \cup DOMAIN perfect[1]) :
      \E e \in 1..Len(cycles[1].entries) :
        cycles[1].entries[e] = [case |-> "CorrectlyUnalignedBlue",
                                nodes |-> <<MergedName(u, "")>>]

----------------------------------------------------------------------------
\* Analysis queries (model/network.rs, analysis/graph.rs, cli compare)

MaxAnalysisLinks == 3

AnalysisNodeIds == {"a", "b", "c"}

directed_link(s, t, sh) ==
  [source |-> s, target |-> t, relation |-> "r", directed |-> "some_true", is_shadow |-> sh]

\* Directed links that can chain a -> b -> c or close a cycle, an undirected
\* link, and a directed shadow link.
AnalysisLinkValues ==
  {directed_link("a", "b", FALSE), directed_link("b", "c", FALSE),
   directed_link("a", "c", FALSE), directed_link("c", "a", FALSE),
   Link("a", "b", "r"), directed_link("b", "a", TRUE)}

\* The networks of up to MaxAnalysisLinks distinct links, in every order.
AnalysisNetworks ==
  {AddLinks(NetworkNew, ls) :
     ls \in {q \in UNION {[1..k -> AnalysisLinkValues] : k \in 0..MaxAnalysisLinks} :
               \A i, j \in 1..Len(q) : i # j => q[i] # q[j]}}

InitAnalysis ==
  /\ network \in AnalysisNetworks
  /\ last_op = "other"
  /\ AlignIdle
  /\ LayoutIdle
  /\ AnalysisIdle

contains_node(net, id) == id \in net.nodes

\* compare_nodes answering a comparison for every pair of ids.
compare_nodes_unchecked(net, node_a, node_b) ==
  LET neighbors_a == neighbors(net, node_a).ids
      neighbors_b == neighbors(net, node_b).ids
  IN <<[node_a |-> node_a, node_b |-> node_b,
        degree_a |-> Cardinality(neighbors_a), degree_b |-> Cardinality(neighbors_b),
        shared_neighbors |-> neighbors_a \cap neighbors_b,
        exclusive_a |-> neighbors_a \ neighbors_b,
        exclusive_b |-> neighbors_b \ neighbors_a,
        jaccard_similarity |-> <<1, 1>>]>>

\* Option<NodeComparison>; the Jaccard similarity is the fraction
\* <<numerator, denominator>>, 1.0 being <<1, 1>>.
compare_nodes(net, node_a, node_b) ==
  IF ~contains_node(net, node_a) \/ ~contains_node(net, node_b)
  THEN <<>>
  ELSE LET neighbors_a == neighbors(net, node_a).ids
           neighbors_b == neighbors(net, node_b).ids
           shared == neighbors_a \cap neighbors_b
           union_size == Cardinality(neighbors_a \cup neighbors_b)
       IN <<[node_a |-> node_a, node_b |-> node_b,
             degree_a |-> Cardinality(neighbors_a),
             degree_b |-> Cardinality(neighbors_b),
             shared_neighbors |-> shared,
             exclusive_a |-> neighbors_a \ neighbors_b,
             exclusive_b |-> neighbors_b \ neighbors_a,
             jaccard_similarity |->
               IF union_size = 0 THEN <<1, 1>> ELSE <<Cardinality(shared), union_size>>]>>

\* commands::compare::run up to the printing: Err("Node(s) not found: ...")
\* with the missing names in argument order, or the comparison.
compare_run(net, node_a, node_b) ==
  LET comparison == compare_nodes(net, node_a, node_b)
  IN IF comparison = <<>>
     THEN [err |-> <<"Node(s) not found",
                     SelectSeq(<<node_a, node_b>>, LAMBDA id : ~contains_node(net, id))>>,
           ok |-> <<>>]
     ELSE [err |-> <<>>, ok |-> comparison]

CompareNodes ==
  /\ \E node_a \in AnalysisNodeIds, node_b \in AnalysisNodeIds :
       outcome' = <<[op |-> "compare_nodes", node_a |-> node_a, node_b |-> node_b,
                     result |-> compare_run(network, node_a, node_b)]>>
  /\ UNCHANGED <<netVars, alignVars, layoutVars, metadata, camera>>

\* Network::detect_directed: the metadata after the call.
detect_directed(net, md) ==
  [md EXCEPT !.is_directed = \E i \in 1..Len(net.links) : net.links[i].directed = "some_true"]

IsArc(l) == l.directed = "some_true" /\ ~l.is_shadow

\* The in-degree map over the directed non-shadow links.
InDegrees(net) ==
  [n \in net.nodes |-> Cardinality({i \in 1..Len(net.links) :
                                      IsArc(net.links[i]) /\ net.links[i].target = n})]

\* The loop over the links for one popped node: every arc leaving it lowers
\* the in-degree of its target, and a target that reaches 0 is released.
RECURSIVE ReleaseLoop(_, _, _, _)
ReleaseLoop(ls, node_id, in_degree, released) ==
  IF ls = <<>> THEN [in_degree |-> in_degree, released |-> released]
  ELSE LET l == Head(ls)
       IN IF IsArc(l) /\ l.source = node_id
          THEN LET deg == in_degree[l.target] - 1
               IN ReleaseLoop(Tail(ls), node_id, [in_degree EXCEPT ![l.target] = deg],
                              IF deg = 0 THEN Append(released, l.target) ELSE released)
          ELSE ReleaseLoop(Tail(ls), node_id, in_degree, released)

\* Kahn's loop of detect_dag: the number of nodes popped.
RECURSIVE DagLoop(_, _, _, _)
DagLoop(net, in_degree, queue, visited) ==
  IF queue = <<>> THEN visited
  ELSE LET step == ReleaseLoop(net.links, Head(queue), in_degree, <<>>)
       IN DagLoop(net, step.in_degree, Tail(queue) \o step.released, visited + 1)

\* Network::detect_dag with the queue seeded in the order seed, one iteration
\* order of the in-degree HashMap: the answer and the metadata after the call.
detect_dag(net, md, seed) ==
  IF ~md.is_directed
  THEN [is_dag |-> FALSE, metadata |-> [md EXCEPT !.is_dag = <<FALSE>>]]
  ELSE LET is_dag == DagLoop(net, InDegrees(net), seed, 0) = Cardinality(net.nodes)
       IN [is_dag |-> is_dag, metadata |-> [md EXCEPT !.is_dag = <<is_dag>>]]

\* zeros.sort() and successors.sort(): the ids of a list in ascending order.
SortIds(ids) == SetToSeq({ids[k] : k \in 1..Len(ids)})

\* Simple Kahn's loop of topological_sort.
RECURSIVE TopoLoop(_, _, _, _)
TopoLoop(net, in_degree, queue, result) ==
  IF queue = <<>> THEN result
  ELSE LET step == ReleaseLoop(net.links, Head(queue), in_degree, <<>>)
       IN TopoLoop(net, step.in_degree, Tail(queue) \o SortIds(step.released),
                   Append(result, Head(queue)))

\* level_nodes.sort_by: degree descending, then id ascending.
RECURSIVE SortLevel(_, _)
SortLevel(net, S) ==
  IF S = {} THEN <<>>
  ELSE LET m == CHOOSE n \in S : \A o \in S :
                  \/ degree(net, n) > degree(net, o)
                  \/ (degree(net, n) = degree(net, o) /\ NodeRank(n) <= NodeRank(o))
       IN <<m>> \o SortLevel(net, S \ {m})

\* The nodes of one level, in sorted order, each releasing its successors.
RECURSIVE LevelLoop(_, _, _, _, _)
LevelLoop(net, level_nodes, in_degree, queue, result) ==
  IF level_nodes = <<>> THEN [in_degree |-> in_degree, queue |-> queue, result |-> result]
  ELSE LET step == ReleaseLoop(net.links, Head(level_nodes), in_degree, <<>>)
       IN LevelLoop(net, Tail(level_nodes), step.in_degree,
                    queue \o SortIds(step.released), Append(result, Head(level_nodes)))

\* Level-aware loop of topological_sort: one frontier at a time.
RECURSIVE CompressLoop(_, _, _, _)
CompressLoop(net, in_degree, queue, result) ==
  IF queue = <<>> THEN result
  ELSE LET level_nodes == SortLevel(net, {queue[k] : k \in 1..Len(queue)})
           done == LevelLoop(net, level_nodes, in_degree, <<>>, result)
       IN CompressLoop(net, done.in_degree, done.queue, done.result)

\* topological_sort: Option<Vec<NodeId>>.
topological_sort(net, compress) ==
  LET in_degree == InDegrees(net)
      queue == SetToSeq({n \in net.nodes : in_degree[n] = 0})
      result == IF compress THEN CompressLoop(net, in_degree, queue, <<>>)
                ELSE TopoLoop(net, in_degree, queue, <<>>)
  IN IF Len(result) = Cardinality(net.nodes) THEN <<result>> ELSE <<>>

\* The inner loop of dag_levels for one id of the order.
RECURSIVE RaiseTargets(_, _, _, _)
RaiseTargets(ls, id, current_level, levels) ==
  IF ls = <<>> THEN levels
  ELSE LET l == Head(ls)
       IN RaiseTargets(Tail(ls), id, current_level,
            IF IsArc(l) /\ l.source = id
            THEN [levels EXCEPT ![l.target] = Max2(@, current_level + 1)]
            ELSE levels)

RECURSIVE LevelsLoop(_, _, _)
LevelsLoop(net, topo, levels) ==
  IF topo = <<>> THEN levels
  ELSE LevelsLoop(net, Tail(topo),
                  RaiseTargets(net.links, Head(topo), levels[Head(topo)], levels))

\* dag_levels with every target keeping the level its first source gave it.
dag_levels_first_source(net) ==
  LET topo == topological_sort(net, FALSE)
      RECURSIVE Over(_, _, _)
      Over(ls, id, levels) ==
        IF ls = <<>> THEN levels
        ELSE Over(Tail(ls), id,
                  IF IsArc(Head(ls)) /\ Head(ls).source = id
                  THEN [levels EXCEPT ![Head(ls).target] = IF @ = 0 THEN levels[id] + 1 ELSE @]
                  ELSE levels)
      RECURSIVE All(_, _)
      All(order, levels) ==
        IF order = <<>> THEN levels ELSE All(Tail(order), Over(net.links, Head(order), levels))
  IN IF topo = <<>> THEN <<>> ELSE <<All(topo[1], [n \in net.nodes |-> 0])>>

\* dag_levels: Option<HashMap<NodeId, usize>>.
dag_levels(net) ==
  LET topo == topological_sort(net, FALSE)
  IN IF topo = <<>> THEN <<>>
     ELSE <<LevelsLoop(net, topo[1], [n \in net.nodes |-> 0])>>

DetectDirected ==
  /\ metadata' = detect_directed(network, metadata)
  /\ outcome' = <<[op |-> "detect_directed"]>>
  /\ UNCHANGED <<netVars, alignVars, layoutVars, camera>>

DetectDag ==
  /\ \E seed \in Orders({n \in network.nodes : InDegrees(network)[n] = 0}) :
       LET answer == detect_dag(network, metadata, seed)
       IN /\ outcome' = <<[op |-> "detect_dag", result |-> answer.is_dag]>>
          /\ metadata' = answer.metadata
  /\ UNCHANGED <<netVars, alignVars, layoutVars, camera>>

TopologicalSort ==
  /\ \E compress \in BOOLEAN :
       outcome' = <<[op |-> "topological_sort", compress |-> compress,
                     result |-> topological_sort(network, compress)]>>
  /\ UNCHANGED <<netVars, alignVars, layoutVars, metadata, camera>>

DagLevels ==
  /\ outcome' = <<[op |-> "dag_levels", result |-> dag_levels(network)]>>
  /\ UNCHANGED <<netVars, alignVars, layoutVars, metadata, camera>>

NHopNeighborhood ==
  /\ \E start \in AnalysisNodeIds, max_hops \in 0..MaxHops :
       outcome' = <<[op |-> "n_hop_neighborhood", start |-> start, max_hops |-> max_hops,
                     result |-> n_hop_neighborhood(network, start, max_hops)]>>
  /\ UNCHANGED <<netVars, alignVars, layoutVars, metadata, camera>>

\* The control node lists a ControlTopLayout is configured with.
ControlNodeLists == {<<>>, <<"a">>, <<"c">>, <<"a", "c">>}

\* ControlTopLayout::criteria_met: <<>> for Ok(()), else the CriteriaNotMet
\* message.
criteria_met(control_nodes, net, md) ==
  IF ~md.is_directed THEN <<"ControlTopLayout requires a fully directed network">>
  ELSE IF control_nodes = <<>>
    THEN <<"ControlTopLayout requires at least one control node to be specified.">>
  ELSE IF \E i \in 1..Len(control_nodes) : ~contains_node(net, control_nodes[i])
    THEN LET i == MinOf({j \in 1..Len(control_nodes) : ~contains_node(net, control_nodes[j])})
         IN <<"Control node not found in network", control_nodes[i]>>
  ELSE <<>>

CriteriaMet ==
  /\ \E control_nodes \in ControlNodeLists :
       outcome' = <<[op |-> "criteria_met", control_nodes |-> control_nodes,
                     result |-> criteria_met(control_nodes, network, metadata)]>>
  /\ UNCHANGED <<netVars, alignVars, layoutVars, metadata, camera>>

NextAnalysis ==
  \/ CompareNodes
  \/ DetectDirected
  \/ DetectDag
  \/ TopologicalSort
  \/ DagLevels
  \/ NHopNeighborhood
  \/ CriteriaMet
  \/ RebuildAdjacencyIndex

SpecAnalysis == InitAnalysis /\ [][NextAnalysis]_vars

\* C21: comparing two ids fails with "not found", naming the absent ids, when
\* either is not a node of the network, and answers a comparison of the two
\* when both are.
C21_CompareFailsIffNodeAbsent ==
  (outcome # <<>> /\ outcome[1].op = "compare_nodes") =>
    LET o == outcome[1]
        absent == {id \in {o.node_a, o.node_b} : id \notin network.nodes}
    IN /\ (absent # {}) <=> (o.result.err # <<>>)
       /\ (absent = {}) <=> (o.result.ok # <<>>)
       /\ o.result.err # <<>> =>
            /\ o.result.err[1] = "Node(s) not found"
            /\ {o.result.err[2][k] : k \in 1..Len(o.result.err[2])} = absent
       /\ o.result.ok # <<>> =>
            /\ o.result.ok[1].node_a = o.node_a
            /\ o.result.ok[1].node_b = o.node_b

\* A failed comparison with one id present and one absent, in a network that
\* has links.
C21_Witness ==
  /\ outcome # <<>>
  /\ outcome[1].op = "compare_nodes"
  /\ outcome[1].result.err # <<>>
  /\ Len(outcome[1].result.err[2]) = 1
  /\ Len(network.links) > 0

\* The arcs of the network: its directed non-shadow links as pairs.
Arcs == {<<network.links[i].source, network.links[i].target>> :
           i \in {j \in 1..Len(network.links) : IsArc(network.links[j])}}

\* The nodes that reach n over one or more arcs.
RECURSIVE Ancestors(_, _)
Ancestors(S, k) ==
  IF k = 0 THEN S
  ELSE Ancestors(S \cup {e[1] : e \in {f \in Arcs : f[2] \in S}}, k - 1)

HasDirectedCycle ==
  \E n \in network.nodes :
    n \in Ancestors({e[1] : e \in {f \in Arcs : f[2] = n}}, Cardinality(network.nodes))

\* C22: detect_dag answers true, and records Some(true), exactly when the
\* directed non-shadow links hold no directed cycle, which is when
\* topological_sort returns an order.
C22_DetectDagIffAcyclic ==
  (outcome # <<>> /\ outcome[1].op = "detect_dag") =>
    /\ outcome[1].result <=> ~HasDirectedCycle
    /\ outcome[1].result <=> (topological_sort(network, FALSE) # <<>>)
    /\ metadata.is_dag = <<outcome[1].result>>

\* The number of arcs on the longest directed path that ends at n; in an
\* acyclic network every such path of greatest length starts at a node
\* without incoming arcs.
RECURSIVE LongestPathTo(_)
LongestPathTo(n) ==
  LET preds == {e[1] : e \in {f \in Arcs : f[2] = n}}
  IN IF preds = {} THEN 0 ELSE 1 + MaxOf({LongestPathTo(q) : q \in preds})

\* C23: for an acyclic network dag_levels gives every node the length of the
\* longest directed path that ends at it from a node without incoming arcs;
\* for a network with a directed cycle it returns none.
C23_LevelsAreLongestPaths ==
  (outcome # <<>> /\ outcome[1].op = "dag_levels") =>
    IF HasDirectedCycle
    THEN outcome[1].result = <<>>
    ELSE /\ outcome[1].result # <<>>
         /\ DOMAIN outcome[1].result[1] = network.nodes
         /\ \A n \in network.nodes : outcome[1].result[1][n] = LongestPathTo(n)

\* Levels of the network a -> b -> c with the shortcut a -> c placed last:
\* c is two arcs from a.
C23_Witness ==
  /\ outcome # <<>>
  /\ outcome[1].op = "dag_levels"
  /\ outcome[1].result # <<>>
  /\ Len(network.links) = 3
  /\ network.links[3].source = "a" /\ network.links[3].target = "c"
  /\ outcome[1].result[1] = [n \in {"a", "b", "c"} |-> CASE n = "a" -> 0 [] n = "b" -> 1 [] n = "c" -> 2]

\* The nodes joined to n by a link, in either direction, shadow links included.
Adjacent(n) ==
  {network.links[i].target : i \in {j \in 1..Len(network.links) : network.links[j].source = n}}
    \cup {network.links[i].source : i \in {j \in 1..Len(network.links) : network.links[j].target = n}}

\* The nodes at shortest-path distance at most k from start.
RECURSIVE WithinDistance(_, _)
WithinDistance(start, k) ==
  IF k = 0 THEN {start}
  ELSE LET near == WithinDistance(start, k - 1)
       IN near \cup UNION {Adjacent(n) : n \in near}

\* C24: n_hop_neighborhood(start, k) is exactly the set of nodes at
\* shortest-path distance at most k from start over all links, direction
\* ignored, start included.
C24_NHopIsDistanceBall ==
  (outcome # <<>> /\ outcome[1].op = "n_hop_neighborhood") =>
    outcome[1].result = WithinDistance(outcome[1].start, outcome[1].max_hops)

\* One hop from a on the path a -- b -- c: c, two links away, is left out.
C24_Witness ==
  /\ outcome # <<>>
  /\ outcome[1].op = "n_hop_neighborhood"
  /\ outcome[1].start = "a"
  /\ outcome[1].max_hops = 1
  /\ outcome[1].result = {"a", "b"}
  /\ network.nodes = {"a", "b", "c"}
  /\ WithinDistance("a", 2) = {"a", "b", "c"}

----------------------------------------------------------------------------
\* Node groups of a merged network (alignment/groups.rs, alignment/scoring.rs)

\* EdgeType::all(), in the order of the enum.
EdgeTypeAll ==
  <<"Covered", "InducedGraph1", "HalfOrphanGraph1", "FullOrphanGraph1",
    "InducedGraph2", "HalfUnalignedGraph2", "FullUnalignedGraph2">>

\* A string is the sequence of the codes of its characters.
Chars(str) ==
  CASE str = "G12" -> <<71, 49, 50>>
    [] str = "pBp" -> <<112, 66, 112>>
    [] str = "pBb" -> <<112, 66, 98>>
    [] str = "bBb" -> <<98, 66, 98>>
    [] str = "pRp" -> <<112, 82, 112>>
    [] str = "pRr" -> <<112, 82, 114>>
    [] str = "rRr" -> <<114, 82, 114>>
    [] str = "(P:" -> <<40, 80, 58>>
    [] str = "(b:" -> <<40, 98, 58>>
    [] str = "(r:" -> <<40, 114, 58>>
    [] str = "0" -> <<48>>
    [] str = "/" -> <<47>>
    [] str = ")" -> <<41>>

\* types_str.join("/") over the edge types with indices idx, ascending.
RECURSIVE JoinCodes(_)
JoinCodes(idx) ==
  IF idx = {} THEN <<>>
  ELSE LET i == MinOf(idx)
       IN Chars(short_code(EdgeTypeAll[i]))
            \o (IF idx = {i} THEN <<>> ELSE Chars("/") \o JoinCodes(idx \ {i}))

\* NodeGroupTag::from_parts: "(c:0)" or "(c:t1/t2/...)".
from_parts(color, idx) ==
  Chars(CASE color = "Purple" -> "(P:" [] color = "Blue" -> "(b:" [] color = "Red" -> "(r:")
    \o (IF idx = {} THEN Chars("0") ELSE JoinCodes(idx)) \o Chars(")")

\* String order: the first differing character decides, a prefix comes first.
RECURSIVE StrLess(_, _)
StrLess(x, y) ==
  IF y = <<>> THEN FALSE
  ELSE IF x = <<>> THEN TRUE
  ELSE IF Head(x) # Head(y) THEN Head(x) < Head(y)
  ELSE StrLess(Tail(x), Tail(y))

color_priority(tag) ==
  IF SubSeq(tag, 1, 3) = Chars("(P:") THEN 0
  ELSE IF SubSeq(tag, 1, 3) = Chars("(b:") THEN 1 ELSE 2

\* Ord for NodeGroupTag.
TagLess(x, y) ==
  \/ color_priority(x) < color_priority(y)
  \/ (color_priority(x) = color_priority(y) /\ StrLess(x, y))

RECURSIVE SortTags(_)
SortTags(tags) ==
  IF tags = {} THEN <<>>
  ELSE LET t == CHOOSE x \in tags : \A y \in tags \ {x} : TagLess(x, y)
       IN <<t>> \o SortTags(tags \ {t})

\* NodeGroupMap::from_merged: the groups in canonical order; members is kept
\* as a set.
from_merged(m) ==
  LET ls == m.network.links
      real == {i \in 1..Len(ls) : ~ls[i].is_shadow}
      keys == DOMAIN m.node_colors
                \cup {ls[i].source : i \in real} \cup {ls[i].target : i \in real}
      node_edge_types ==
        [n \in keys |->
           {CHOOSE k \in 1..7 : EdgeTypeAll[k] = m.edge_types[i] :
              i \in {j \in real : n \in {ls[j].source, ls[j].target}}}]
      color(n) == IF n \in DOMAIN m.node_colors THEN m.node_colors[n] ELSE "Purple"
      tag(n) == from_parts(color(n), node_edge_types[n])
      sorted_tags == SortTags({tag(n) : n \in keys})
  IN [groups |->
        [g \in 1..Len(sorted_tags) |->
           LET members == {n \in keys : tag(n) = sorted_tags[g]}
               first == CHOOSE n \in members : TRUE
           IN [tag |-> sorted_tags[g], color |-> color(first),
               edge_types |-> node_edge_types[first], members |-> members]]]

RECURSIVE SumSizes(_)
SumSizes(groups) ==
  IF groups = <<>> THEN 0 ELSE Cardinality(Head(groups).members) + SumSizes(Tail(groups))

\* NodeGroupMap::ratio_vector: one fraction <<members, total>> per group of
\* this map, <<0, 1>> standing for 0.0.
ratio_vector(ngm) ==
  LET total == SumSizes(ngm.groups)
  IN [g \in 1..Len(ngm.groups) |->
        IF total = 0 THEN <<0, 1>> ELSE <<Cardinality(ngm.groups[g].members), total>>]

\* Step 2 of the evaluation scores: the node group vectors of the merge under
\* the main alignment and of the merge under the perfect alignment, which are
\* then handed to angular_similarity.
NodeGroupRatios ==
  /\ perfect # <<>>
  /\ \E order \in Orders(DOMAIN alignment), perfect_order \in Orders(DOMAIN perfect[1]) :
       LET main == from_merged(from_alignment(g1, g2, alignment, perfect, order))
           perf == from_merged(from_alignment(g1, g2, perfect[1], perfect, perfect_order))
       IN outcome' = <<[op |-> "node_group_ratios",
                        main_tags |-> [g \in 1..Len(main.groups) |-> main.groups[g].tag],
                        main_vector |-> ratio_vector(main),
                        perfect_tags |-> [g \in 1..Len(perf.groups) |-> perf.groups[g].tag],
                        perfect_vector |-> ratio_vector(perf)]>>
  /\ UNCHANGED <<netVars, alignVars, layoutVars, metadata, camera>>

NextGroups == NodeGroupRatios

SpecGroups == InitK3 /\ [][NextGroups]_vars

\* C25: the node group ratio vectors of the main and of the perfect alignment
\* have the same length and the same group at each position.
C25_RatioVectorsAreLengthAligned ==
  (outcome # <<>> /\ outcome[1].op = "node_group_ratios") =>
    /\ Len(outcome[1].main_vector) = Len(outcome[1].perfect_vector)
    /\ outcome[1].main_tags = outcome[1].perfect_tags

\* C26: criteria_met fails exactly when the network has no link with
\* directed == Some(true), or the control list is empty, or a control node is
\* not a node of the network.
C26_CriteriaMetIffDirectedWithControls ==
  (outcome # <<>> /\ outcome[1].op = "criteria_met") =>
    LET o == outcome[1]
        directed == \E i \in 1..Len(network.links) : network.links[i].directed = "some_true"
    IN (o.result # <<>>) <=>
         \/ ~directed
         \/ o.control_nodes = <<>>
         \/ \E i \in 1..Len(o.control_nodes) : o.control_nodes[i] \notin network.nodes

----------------------------------------------------------------------------
\* Camera (render/camera.rs)

MaxGrid == 3
MaxCanvas == 3

FracLe(x, y) == x[1] * y[2] <= y[1] * x[2]
FracEq(x, y) == x[1] * y[2] = y[1] * x[2]
FracMin(x, y) == IF FracLe(x, y) THEN x ELSE y
FracMax(x, y) == IF FracLe(x, y) THEN y ELSE x

\* Every layout extent and canvas size within the bounds.
InitCamera ==
  /\ network = NetworkNew /\ last_op = "new"
  /\ AlignIdle
  /\ extract_set = {} /\ submodel = <<>> /\ params = <<>> /\ render_output = <<>>
  /\ metadata = NetworkMetadataDefault
  /\ outcome = <<>>
  /\ \E rows \in 0..MaxGrid, cols \in 0..MaxGrid, cols_no_shadows \in 0..MaxGrid :
       /\ cols_no_shadows <= cols
       /\ layout = [NetworkLayoutNew EXCEPT !.row_count = rows, !.column_count = cols,
                                            !.column_count_no_shadows = cols_no_shadows]
  /\ \E width \in 1..MaxCanvas, height \in 1..MaxCanvas : camera = for_canvas(width, height)

\* The per-axis zoom canvas / (grid * (1.0 + 2.0 * margin)) with margin 0.02.
AxisZoom(canvas, grid) == <<canvas * 100, grid * 104>>

\* zoom_to_fit fitting the longer axis only.
zoom_to_fit_larger(cam, lay, show_shadows) ==
  LET cols == IF show_shadows THEN lay.column_count ELSE lay.column_count_no_shadows
  IN IF lay.row_count = 0 \/ cols = 0 THEN cam
     ELSE [cam EXCEPT !.zoom = FracMax(AxisZoom(cam.canvas_width, cols),
                                       AxisZoom(cam.canvas_height, lay.row_count)),
                      !.center_x = <<cols, 2>>, !.center_y = <<lay.row_count, 2>>]

zoom_to_fit(cam, lay, show_shadows) ==
  LET cols == IF show_shadows THEN lay.column_count ELSE lay.column_count_no_shadows
  IN IF lay.row_count = 0 \/ cols = 0 THEN cam
     ELSE LET zoom_x == AxisZoom(cam.canvas_width, cols)
              zoom_y == AxisZoom(cam.canvas_height, lay.row_count)
          IN [cam EXCEPT !.zoom = FracMin(zoom_x, zoom_y),
                         !.center_x = <<cols, 2>>, !.center_y = <<lay.row_count, 2>>]

ZoomToFit ==
  /\ \E show_shadows \in BOOLEAN :
       /\ camera' = zoom_to_fit(camera, layout, show_shadows)
       /\ outcome' = <<[op |-> "zoom_to_fit", show_shadows |-> show_shadows]>>
  /\ UNCHANGED <<netVars, alignVars, layoutVars, metadata>>

NextCamera == ZoomToFit

SpecCamera == InitCamera /\ [][NextCamera]_vars

\* The column count zoom_to_fit read, and whether it had an extent to fit.
FittedCols ==
  IF outcome[1].show_shadows THEN layout.column_count ELSE layout.column_count_no_shadows

Fitted ==
  /\ outcome # <<>> /\ outcome[1].op = "zoom_to_fit"
  /\ layout.row_count >= 1 /\ FittedCols >= 1

\* C27: zoom_to_fit on a layout with at least one row and one column (the
\* column count of the chosen shadow mode) sets the zoom to the smaller of
\* canvas_width / (columns * 1.04) and canvas_height / (rows * 1.04).
C27_ZoomIsSmallerAxisZoom ==
  Fitted =>
    LET zoom_x == <<camera.canvas_width * 100, FittedCols * 104>>
        zoom_y == <<camera.canvas_height * 100, layout.row_count * 104>>
    IN /\ FracLe(camera.zoom, zoom_x) /\ FracLe(camera.zoom, zoom_y)
       /\ FracEq(camera.zoom, zoom_x) \/ FracEq(camera.zoom, zoom_y)

\* zoom_to_fit has acted on a layout whose two per-axis zooms differ.
C27_Witness ==
  /\ Fitted
  /\ camera.canvas_width * layout.row_count # camera.canvas_height * FittedCols

\* C27 as stated: the zoom is the larger of the two per-axis zooms.
C27_ZoomIsLargerAxisZoom ==
  Fitted =>
    LET zoom_x == <<camera.canvas_width * 100, FittedCols * 104>>
        zoom_y == <<camera.canvas_height * 100, layout.row_count * 104>>
    IN /\ FracLe(zoom_x, camera.zoom) /\ FracLe(zoom_y, camera.zoom)
       /\ FracEq(camera.zoom, zoom_x) \/ FracEq(camera.zoom, zoom_y)

----------------------------------------------------------------------------
\* C28: no node of lone_nodes() is an endpoint of a link of the network.
C28_LoneNodesHaveNoLinks ==
  \A i \in 1..Len(network.links) :
    /\ network.links[i].source \notin network.lone_nodes
    /\ network.links[i].target \notin network.lone_nodes

----------------------------------------------------------------------------
\* Cycle-mode link annotations (alignment/layout.rs)

MaxCycleLinks == 3
MaxCycleBounds == 2

CycleBoundNew(bound_start, bound_end, is_correct, is_cycle) ==
  [bound_start |-> bound_start, bound_end |-> bound_end,
   is_correct |-> is_correct, is_cycle |-> is_cycle]

\* The top node of a regular link, the bottom node of a shadow link.
zone_node(ll) ==
  IF ll.is_shadow
    THEN (IF ll.source_row > ll.target_row THEN ll.source ELSE ll.target)
    ELSE (IF ll.source_row < ll.target_row THEN ll.source ELSE ll.target)

\* The annotation of the bound in progress, numbered cycle_idx.
CycleAnnotation(st) ==
  AnnotationNew(<<IF st.curr_bound.is_cycle THEN "cycle " ELSE "path ", st.cycle_idx>>,
                st.start_pos, st.end_pos, 0,
                IF st.cycle_idx % 2 = 0 THEN "Orange" ELSE "Green")

IsCorrectSingleton(bound) == bound.bound_start = bound.bound_end /\ bound.is_correct

\* The scan of cycle_bounds for an unseen bound that starts at zoner.
RECURSIVE BoundScan(_, _, _)
BoundScan(st, cycle_bounds, zoner) ==
  IF cycle_bounds = <<>> THEN st
  ELSE LET bound == Head(cycle_bounds)
           next == IF bound.bound_start \notin st.seen /\ bound.bound_start = zoner
                     THEN [st EXCEPT !.start_pos = st.count,
                                     !.seen = @ \cup {bound.bound_start},
                                     !.curr_bound = bound]
                     ELSE st
       IN BoundScan(next, Tail(cycle_bounds), zoner)

\* One link of the loop over link_layout.links.
CycleLinkStep(st, ll, cycle_bounds, shadow) ==
  IF ll.is_shadow /\ ~shadow THEN st
  ELSE LET zoner == zone_node(ll)
           closed ==
             IF st.curr_zoner # <<>> /\ st.curr_zoner[1] = st.curr_bound.bound_end
                  /\ ~IsCorrectSingleton(st.curr_bound)
               THEN [st EXCEPT !.annots = AnnotationSetAdd(@, CycleAnnotation(st)),
                               !.cycle_idx = @ + 1]
               ELSE st
           changed ==
             IF st.curr_zoner # <<zoner>>
               THEN BoundScan([closed EXCEPT !.curr_zoner = <<zoner>>], cycle_bounds, zoner)
               ELSE st
       IN [changed EXCEPT !.end_pos = changed.count, !.count = @ + 1]

RECURSIVE CycleLinkLoop(_, _, _, _)
CycleLinkLoop(st, links, cycle_bounds, shadow) ==
  IF links = <<>> THEN st
  ELSE CycleLinkLoop(CycleLinkStep(st, Head(links), cycle_bounds, shadow),
                     Tail(links), cycle_bounds, shadow)

calc_cycle_link_annots(link_layout, cycle_bounds, shadow, use_node_groups) ==
  IF use_node_groups \/ ~shadow THEN <<>>
  ELSE LET st == CycleLinkLoop([curr_zoner |-> <<>>,
                                curr_bound |-> CycleBoundNew("", "", FALSE, FALSE),
                                seen |-> {}, cycle_idx |-> 0, start_pos |-> 0,
                                end_pos |-> 0, count |-> 0, annots |-> <<>>],
                               link_layout.links, cycle_bounds, shadow)
       IN IF ~IsCorrectSingleton(st.curr_bound) /\ st.count > 0
            THEN AnnotationSetAdd(st.annots, CycleAnnotation(st))
            ELSE st.annots

\* Rows of the nodes of the cycle layouts.
CycleRow(n) == NodeRank(n) - 1

CycleLinkValues ==
  {[source |-> "a", target |-> "b", is_shadow |-> FALSE],
   [source |-> "b", target |-> "a", is_shadow |-> TRUE],
   [source |-> "b", target |-> "c", is_shadow |-> FALSE],
   [source |-> "c", target |-> "b", is_shadow |-> TRUE],
   [source |-> "a", target |-> "c", is_shadow |-> FALSE]}

CycleBoundValues ==
  {CycleBoundNew("a", "a", TRUE, FALSE), CycleBoundNew("a", "a", FALSE, FALSE),
   CycleBoundNew("a", "b", FALSE, TRUE), CycleBoundNew("b", "c", FALSE, FALSE),
   CycleBoundNew("c", "c", TRUE, FALSE)}

\* Placed links in column order, one column each.
CycleLayouts ==
  {[NetworkLayoutNew EXCEPT
      !.links = [i \in 1..Len(ls) |->
                   LinkLayoutNew(i - 1, ls[i].source, ls[i].target, CycleRow(ls[i].source),
                                 CycleRow(ls[i].target), "r", ls[i].is_shadow)],
      !.row_count = 3, !.column_count = Len(ls)] :
     ls \in UNION {[1..n -> CycleLinkValues] : n \in 0..MaxCycleLinks}}

\* Lists of bounds with distinct bounds.
CycleBoundLists ==
  {bs \in UNION {[1..n -> CycleBoundValues] : n \in 0..MaxCycleBounds} :
     \A i, j \in 1..Len(bs) : i # j => bs[i] # bs[j]}

InitCycleAnnots ==
  /\ network = NetworkNew /\ last_op = "new"
  /\ AlignIdle
  /\ AnalysisIdle
  /\ extract_set = {} /\ submodel = <<>> /\ params = <<>> /\ render_output = <<>>
  /\ layout \in CycleLayouts

CalcCycleLinkAnnots ==
  /\ \E cycle_bounds \in CycleBoundLists, shadow \in BOOLEAN, use_node_groups \in BOOLEAN :
       outcome' = <<[op |-> "calc_cycle_link_annots", cycle_bounds |-> cycle_bounds,
                     result |-> calc_cycle_link_annots(layout, cycle_bounds, shadow,
                                                       use_node_groups)]>>
  /\ UNCHANGED <<netVars, alignVars, layoutVars, metadata, camera>>

NextCycleAnnots == CalcCycleLinkAnnots

SpecCycleAnnots == InitCycleAnnots /\ [][NextCycleAnnots]_vars

\* C29: the annotations are at most as many as the cycle bounds that are not
\* correct singletons, none when cycle_bounds is empty, and no two of them
\* cover the same column position.
C29_CycleAnnotsWithinBounds ==
  (outcome # <<>> /\ outcome[1].op = "calc_cycle_link_annots") =>
    LET o == outcome[1]
        real == {i \in 1..Len(o.cycle_bounds) : ~IsCorrectSingleton(o.cycle_bounds[i])}
    IN /\ Len(o.result) <= Cardinality(real)
       /\ o.cycle_bounds = <<>> => o.result = <<>>
       /\ \A i, j \in 1..Len(o.result) :
            i # j => \/ o.result[i].end < o.result[j].start
                     \/ o.result[j].end < o.result[i].start

----------------------------------------------------------------------------
\* C30: detect ends on every alignment and perfect alignment, injective or
\* not, and no chain walk makes more than (number of alignment keys + 1)
\* passes through its loop.
C30_ChainWalkIterationsBounded ==
  cycles # <<>> =>
    \A k \in 1..Len(cycles[1].walks) :
      cycles[1].walks[k].iterations <= Cardinality(DOMAIN alignment) + 1

\* detect has ended on a non-injective alignment with a walk that used every
\* one of the (keys + 1) passes.
C30_Witness ==
  /\ cycles # <<>>
  /\ \E x, y \in DOMAIN alignment : x # y /\ alignment[x] = alignment[y]
  /\ \E k \in 1..Len(cycles[1].walks) :
       cycles[1].walks[k].iterations = Cardinality(DOMAIN alignment) + 1

====
